---- MODULE Spec2Model ----
(***************************************************************************)
(* A model of the RIPL evaluator: ripl/evaluators.py (Evaluator.eval) and  *)
(* the scope machinery of ripl/bases.py (Scope = ChainMap, nested_scope,   *)
(* RiplFunc).  A state is the heap of scope frames reachable from the      *)
(* global scope, plus a record of the last form the session evaluated and  *)
(* what came out of it.  One step reads one top-level form and runs        *)
(* Evaluator.eval(form, global_scope) to completion.                       *)
(***************************************************************************)
EXTENDS Integers, Sequences, FiniteSets, TLC

VARIABLES frames, last

vars == <<frames, last>>

(***************************************************************************)
(* Bounds of the model.                                                    *)
(***************************************************************************)
\* Frames kept on the heap between two top-level forms.
MaxFrames == 3
\* Nested eval invocations plus loop iterations allowed for one form.
MaxFuel == 12

(***************************************************************************)
(* Values.  Every value is a record of one shape; `tag` says which Python  *)
(* class it stands for and the other fields are used as that class needs.  *)
(***************************************************************************)
V(tag, n, name, items, scope) ==
    [tag |-> tag, n |-> n, name |-> name, items |-> items, scope |-> scope]

\* An int.
PyInt(i) == V("int", i, "", <<>>, <<>>)

\* A bool: True is 1 and False is 0.
PyBool(b) == V("bool", IF b THEN 1 ELSE 0, "", <<>>, <<>>)

\* Python's None.
None == V("none", 0, "", <<>>, <<>>)

\* bases.Symbol: `str` is `stars` leading '*' characters followed by `s`,
\* and `s` does not begin with '*'.
Symbol(stars, s) == V("sym", stars, s, <<>>, <<>>)

\* A symbol without leading stars.
Sym(s) == Symbol(0, s)

\* bases.Keyword.
Keyword(s) == V("kw", 0, s, <<>>, <<>>)

\* bases.RList (a deque): an s-expression or a list value.
RList(items) == V("list", 0, "", items, <<>>)

\* bases.EmptyList(): an empty deque of the subclass, which `n` = 1 marks.
EmptyList == V("list", 1, "", <<>>, <<>>)

\* isinstance(v, EmptyList).
IsEmptyList(v) == v.tag = "list" /\ v.n = 1

\* bases.RVector (a Python list).
RVector(items) == V("vec", 0, "", items, <<>>)

\* bases.RDict: `flat` is k1, v1, k2, v2, ... in insertion order, keys unique.
RDict(flat) == V("dict", 0, "", flat, <<>>)

\* A Python tuple.
Tuple(items) == V("tuple", 0, "", items, <<>>)

\* A plain Python list, as a list comprehension builds it.
PyList(items) == V("pylist", 0, "", items, <<>>)

\* bases.RString (a str).  The model carries the empty string and strings of
\* one character, whose only item is the string itself.
RString(s) == V("str", 0, s, <<>>, <<>>)

\* The closure class (Func in evaluators.py, RiplFunc in bases.py): the
\* parameter list, the docstring, the body and the defining scope.  The scope
\* is a ChainMap, held by reference: the sequence of the ids of its maps.
Func(args, doc, body, scope) == V("func", 0, doc, <<args, body>>, scope)

\* A host procedure of the global scope.
Builtin(name) == V("builtin", 0, name, <<>>, <<>>)

\* S-expression shorthands.
L1(a) == RList(<<a>>)
L2(a, b) == RList(<<a, b>>)
L3(a, b, c) == RList(<<a, b, c>>)
L4(a, b, c, d) == RList(<<a, b, c, d>>)

(***************************************************************************)
(* Python protocol of the values.                                          *)
(***************************************************************************)
\* isinstance(v, collections.Container): the classes with __contains__.
IsContainer(v) == v.tag \in {"list", "vec", "dict", "tuple", "str", "pylist"}

\* Values with a sequence of items (deque, list, tuple).
IsSequence(v) == v.tag \in {"list", "vec", "tuple", "pylist"}

\* hash(v) succeeds: deque, list and dict are unhashable, a tuple is
\* hashable when its items are (the model holds tuples of atoms only).
Hashable(v) == v.tag \notin {"list", "vec", "dict", "pylist"}

\* len(v) of a container.
PyLen(v) ==
    IF v.tag = "dict" THEN Len(v.items) \div 2
    ELSE IF v.tag = "str" THEN (IF v.name = "" THEN 0 ELSE 1)
    ELSE Len(v.items)

\* bool(v): numbers by value, None false, containers by length; Symbol,
\* Keyword, closures and host procedures define neither __bool__ nor __len__.
Truthy(v) ==
    CASE v.tag \in {"int", "bool"} -> v.n # 0
      [] v.tag = "none" -> FALSE
      [] IsContainer(v) -> PyLen(v) > 0
      [] OTHER -> TRUE

(***************************************************************************)
(* Equality: a == b.                                                       *)
(***************************************************************************)
\* (variant) EmptyList without an __eq__ of its own: the equality of deque,
\* item by item, which nothing but a deque satisfies.
EmptyList__eq__deque(self, other) ==
    PyBool(other.tag = "list" /\ Len(other.items) = 0)

\* EmptyList.__eq__(self, other): True for None and for an empty RList,
\* `other is None` (False) for a non-empty RList, and for anything else the
\* method falls off its end and returns None.
EmptyList__eq__(self, other) ==
    IF other.tag = "none" THEN PyBool(TRUE)
    ELSE IF other.tag = "list"
    THEN IF Len(other.items) = 0 THEN PyBool(TRUE) ELSE PyBool(FALSE)
    ELSE None

RECURSIVE PyEq(_, _)
\* operator.eq(a, b).  An EmptyList operand decides with its __eq__, first
\* when it is the left operand or when the left operand is an RList (its
\* base class), and as the reflected method when the left operand's own
\* __eq__ gives NotImplemented; Symbol.__eq__ returns None and
\* Keyword.__eq__ False for any other class.  Sequences of one class
\* compare item by item, numbers by value.  Closures compare by identity,
\* which the model does not carry: no form of the model compares them.
PyEq(a, b) ==
    IF IsEmptyList(a) THEN EmptyList__eq__(a, b)
    ELSE IF a.tag = "sym" THEN (IF b.tag = "sym" THEN PyBool(a = b) ELSE None)
    ELSE IF a.tag = "kw" THEN PyBool(a = b)
    ELSE IF IsEmptyList(b) THEN EmptyList__eq__(b, a)
    ELSE IF a.tag \in {"int", "bool"} /\ b.tag \in {"int", "bool"}
    THEN PyBool(a.n = b.n)
    ELSE IF a.tag = b.tag /\ a.tag \in {"list", "vec", "tuple"}
    THEN PyBool(/\ Len(a.items) = Len(b.items)
                /\ \A i \in 1..Len(a.items) :
                      Truthy(PyEq(a.items[i], b.items[i])))
    ELSE PyBool(a = b)

(***************************************************************************)
(* Outcomes.  `st` is "ok" or the name of the exception raised; `val` is   *)
(* the value returned (for NameError, the symbol the message names);       *)
(* `frames` is the heap as the evaluation left it: an exception does not   *)
(* undo the bindings made before it.                                       *)
(***************************************************************************)
Ok(v, fr) == [st |-> "ok", val |-> v, msg |-> "", frames |-> fr]

Raise(exc, msg, v, fr) == [st |-> exc, val |-> v, msg |-> msg, frames |-> fr]

(***************************************************************************)
(* Scope = collections.ChainMap over the heap of frames.  A frame is a     *)
(* dict: a function from its keys to their values.                         *)
(***************************************************************************)
EmptyFrame == [k \in {} |-> None]

\* dict[key] = val.
Put(frame, key, val) ==
    [k \in (DOMAIN frame) \cup {key} |-> IF k = key THEN val ELSE frame[k]]

RECURSIVE ChainGetOutermost(_, _, _)
\* (variant) the search starts from the root map.
ChainGetOutermost(scope, fr, key) ==
    IF scope = <<>> THEN [found |-> FALSE, val |-> None]
    ELSE IF key \in DOMAIN fr[scope[Len(scope)]]
         THEN [found |-> TRUE, val |-> fr[scope[Len(scope)]][key]]
         ELSE ChainGetOutermost(SubSeq(scope, 1, Len(scope) - 1), fr, key)

RECURSIVE ChainGet(_, _, _)
\* ChainMap.__getitem__: the first map of the chain that holds the key;
\* found = FALSE is the KeyError of __missing__.
ChainGet(scope, fr, key) ==
    IF scope = <<>> THEN [found |-> FALSE, val |-> None]
    ELSE IF key \in DOMAIN fr[Head(scope)]
         THEN [found |-> TRUE, val |-> fr[Head(scope)][key]]
         ELSE ChainGet(Tail(scope), fr, key)

\* (variant) the write goes to the root map of the chain.
ChainSetRoot(scope, fr, key, val) ==
    [fr EXCEPT ![scope[Len(scope)]] = Put(@, key, val)]

\* ChainMap.__setitem__: self.maps[0][key] = value.
ChainSet(scope, fr, key, val) ==
    [fr EXCEPT ![scope[1]] = Put(@, key, val)]

\* ChainMap.new_child(m): a new chain with m in front of the same maps.
NewChild(scope, fr, new_defs) ==
    [scope |-> <<Len(fr) + 1>> \o scope, frames |-> Append(fr, new_defs)]

\* (variant) the closure keeps scope.copy(): a chain whose first map is a
\* copy of the defining frame.
CaptureCopy(scope, fr) ==
    [scope |-> <<Len(fr) + 1>> \o Tail(scope),
     frames |-> Append(fr, fr[Head(scope)])]

\* RiplFunc.__init__: self.scope = scope, the chain itself and no copy.
Capture(scope, fr) == [scope |-> scope, frames |-> fr]

(***************************************************************************)
(* nested_scope(current_scope, args, vals): the scope of a closure call.   *)
(* `args` is the closure's parameter list (a value), `vals` the Python     *)
(* list of the evaluated call arguments.  The result is the new chain and  *)
(* the heap holding its first map, or the exception raised.                *)
(***************************************************************************)
\* {var: val for var, val in zip(args, vals)}: a later duplicate wins.
ZipDefs(params, vals) ==
    LET n == IF Len(params) < Len(vals) THEN Len(params) ELSE Len(vals)
        keys == {params[i] : i \in 1..n}
        lastOf(k) == CHOOSE i \in 1..n :
                        /\ params[i] = k
                        /\ \A j \in 1..n : params[j] = k => j <= i
    IN  [k \in keys |-> vals[lastOf(k)]]

NsOk(scope, fr, new_defs) ==
    LET c == NewChild(scope, fr, new_defs)
    IN  [st |-> "ok", msg |-> "", scope |-> c.scope, frames |-> c.frames]

NsRaise(exc, msg, fr) == [st |-> exc, msg |-> msg, scope |-> <<>>, frames |-> fr]

\* (variant) the single-parameter branch does not check the argument count.
nested_scope_unchecked(current_scope, args, vals, fr) ==
    IF ~IsSequence(args) THEN NsRaise("TypeError", "args has no len()", fr)
    ELSE IF Len(vals) = 0 THEN NsOk(current_scope, fr, EmptyFrame)
    ELSE NsOk(current_scope, fr, ZipDefs(args.items, vals))

nested_scope(current_scope, args, vals, fr) ==
    IF ~(IsSequence(args) \/ args.tag = "str")
    THEN NsRaise("TypeError", "args has no len()", fr)
    ELSE
    LET ps == IF args.tag = "str"
              THEN (IF PyLen(args) = 1 THEN <<args>> ELSE <<>>)
              ELSE args.items
    IN
    IF Len(ps) = 1 THEN
        LET arg == ps[1] IN
        IF arg.tag \notin {"sym", "kw"}
        THEN NsRaise("AttributeError", "no attribute str", fr)
        ELSE IF arg.tag = "sym" /\ arg.n >= 2
        \* **kwargs: the evaluator passes a list, never a dict
        THEN NsRaise("SyntaxError", "**kwargs must be a dict", fr)
        ELSE IF arg.tag = "sym" /\ arg.n = 1
        THEN \* *args
             IF Len(vals) > 1
             THEN NsOk(current_scope, fr,
                       Put(EmptyFrame, Sym(arg.name), Tuple(vals)))
             ELSE IF Len(vals) = 1
             THEN NsOk(current_scope, fr,
                       Put(EmptyFrame, Sym(arg.name), vals[1]))
             ELSE NsRaise("IndexError", "list index out of range", fr)
        ELSE \* a single arg and val
             IF Len(vals) # 1
             THEN NsRaise("SyntaxError", "expected 1 positional argument", fr)
             ELSE NsOk(current_scope, fr, Put(EmptyFrame, arg, vals[1]))
    ELSE
        IF Len(ps) > Len(vals)
        THEN NsRaise("SyntaxError", "missing positional arguments", fr)
        ELSE IF Len(ps) < Len(vals)
        THEN NsRaise("SyntaxError", "too many positional arguments", fr)
        ELSE NsOk(current_scope, fr, ZipDefs(ps, vals))

(***************************************************************************)
(* Containers as functions of key/index: container.__getitem__(key).       *)
(***************************************************************************)
RECURSIVE DictFind(_, _)
\* Position of the value of `key` in a flat key/value sequence, 0 if absent.
DictFind(flat, key) ==
    IF Len(flat) < 2 THEN 0
    ELSE IF flat[Len(flat) - 1] = key THEN Len(flat)
    ELSE DictFind(SubSeq(flat, 1, Len(flat) - 2), key)

\* deque/list/tuple: an int position, negative ones counting from the end;
\* dict: a hashable key that is present.
GetItem(c, key, fr) ==
    IF c.tag = "dict"
    THEN IF ~Hashable(key) THEN Raise("TypeError", "unhashable type", None, fr)
         ELSE IF DictFind(c.items, key) = 0
         THEN Raise("KeyError", "key", key, fr)
         ELSE Ok(c.items[DictFind(c.items, key)], fr)
    ELSE IF key.tag \notin {"int", "bool"}
    THEN Raise("TypeError", "indices must be integers", None, fr)
    ELSE IF c.tag = "str"
    THEN IF PyLen(c) = 1 /\ key.n \in {0, -1} THEN Ok(c, fr)
         ELSE Raise("IndexError", "string index out of range", None, fr)
    ELSE IF key.n >= 0 /\ key.n < Len(c.items) THEN Ok(c.items[key.n + 1], fr)
    ELSE IF key.n < 0 /\ -key.n <= Len(c.items)
    THEN Ok(c.items[Len(c.items) + key.n + 1], fr)
    ELSE Raise("IndexError", "index out of range", None, fr)

(***************************************************************************)
(* Host procedures of get_global_scope used by the forms of the model.     *)
(***************************************************************************)
RECURSIVE SumInts(_)
SumInts(vals) == IF vals = <<>> THEN 0 ELSE Head(vals).n + SumInts(Tail(vals))

RECURSIVE DictOfPairs(_, _)
\* RDict({k: v for k, v in pairs}): a repeated key keeps its place and
\* takes the later value.
DictOfPairs(parsed, flat) ==
    IF parsed = <<>> THEN flat
    ELSE LET k == parsed[1]
             v == parsed[2]
             at == DictFind(flat, k)
         IN  DictOfPairs(Tail(Tail(parsed)),
                         IF at = 0 THEN flat \o <<k, v>>
                         ELSE [flat EXCEPT ![at] = v])

\* A List the reader made carries a name: every list read is one object, and
\* whatever holds it (a binding, a closure's body) holds that same object.
\* Lists built while evaluating are unnamed.
QList(id, items) == V("list", 0, id, items, <<>>)

RECURSIVE SubstObj(_, _, _)
\* The object named id, wherever it occurs inside v, seen after a change.
SubstObj(v, id, new) ==
    IF v.tag = "list" /\ v.name = id THEN new
    ELSE [v EXCEPT !.items =
            [i \in 1..Len(v.items) |-> SubstObj(v.items[i], id, new)]]

\* deque.extendleft on a held object: every holder sees the change.
Mutate(fr, id, new) ==
    [i \in 1..Len(fr) |->
        [k \in DOMAIN fr[i] |-> SubstObj(fr[i][k], id, new)]]

\* iter(other) succeeds.
Iterable(v) == v.tag \in {"list", "vec", "pylist", "tuple", "dict", "str"}

\* The items iter(other) yields: the keys of a dict, the characters of a
\* string.
IterItems(v) ==
    IF v.tag = "dict"
    THEN [i \in 1..(Len(v.items) \div 2) |-> v.items[2 * i - 1]]
    ELSE IF v.tag = "str"
    THEN (IF v.name = "" THEN <<>> ELSE <<v>>)
    ELSE v.items

Reversed(s) == [i \in 1..Len(s) |-> s[Len(s) + 1 - i]]

\* RList._cons(other): extendleft pushes the items of an iterable one by one,
\* so they arrive reversed; anything else is pushed whole.  The receiver
\* itself is changed and returned.
RList_cons(self, other, fr) ==
    LET new == [self EXCEPT !.items =
                   (IF Iterable(other) THEN Reversed(IterItems(other))
                    ELSE <<other>>) \o @]
    IN  Ok(new, IF self.name = "" THEN fr ELSE Mutate(fr, self.name, new))

\* RDict._cons(other)
RDict_cons(self, other, fr) ==
    IF other.tag = "dict"
    THEN Ok(RDict(DictOfPairs(other.items, self.items)), fr)
    ELSE IF other.tag = "str"
    THEN (IF other.name = "" THEN Ok(self, fr)
          ELSE Raise("ValueError", "not enough values to unpack", None, fr))
    ELSE IF other.tag = "list"
    THEN (IF other.items = <<>> THEN Ok(self, fr)
          ELSE Raise("TypeError",
                     "sequence index must be integer, not 'slice'", None, fr))
    ELSE IF other.tag \in {"vec", "pylist", "tuple"}
    THEN (IF Len(other.items) % 2 = 1
          THEN Raise("ValueError", "not enough values to unpack", None, fr)
          ELSE IF \E i \in 1..Len(other.items) :
                    i % 2 = 1 /\ ~Hashable(other.items[i])
          THEN Raise("TypeError", "unhashable type", None, fr)
          ELSE Ok(RDict(DictOfPairs(other.items, self.items)), fr))
    ELSE Raise("TypeError", "object has no len()", None, fr)

\* cons: lambda x, y: y._cons(x)
cons(x, y, fr) ==
    CASE y.tag = "list" -> RList_cons(y, x, fr)
      [] y.tag = "vec" -> Ok(PyList(<<x>> \o y.items), fr)
      [] y.tag = "dict" -> RDict_cons(y, x, fr)
      [] y.tag = "str" ->
            \* RString._cons(other) is other + self, and EmptyList.__add__
            \* answers with RList(other)
            IF x.tag = "str" THEN Ok(RString(x.name \o y.name), fr)
            ELSE IF IsEmptyList(x) THEN Ok(RList(IterItems(y)), fr)
            ELSE Raise("TypeError", "unsupported operand type(s) for +",
                       None, fr)
      [] OTHER -> Raise("AttributeError", "object has no attribute '_cons'",
                        None, fr)

RECURSIVE CatItems(_)
CatItems(vals) ==
    IF vals = <<>> THEN <<>> ELSE Head(vals).items \o CatItems(Tail(vals))

\* proc(*args) for a host procedure.  '+' is reduce(op.add, x) and is
\* modelled on ints and on plain lists; 'begin' is x[-1]; '==' is operator.eq; 'null?' is
\* x == EmptyList(); 'list' is RList(x); 'cdr' is x[1:].
ApplyBuiltin(name, vals, fr) ==
    CASE name = "+" ->
            IF vals = <<>>
            THEN Raise("TypeError", "reduce() of empty sequence", None, fr)
            ELSE IF \A i \in 1..Len(vals) : vals[i].tag \in {"int", "bool"}
            THEN Ok(PyInt(SumInts(vals)), fr)
            ELSE IF \A i \in 1..Len(vals) : vals[i].tag = "pylist"
            THEN Ok(PyList(CatItems(vals)), fr)
            ELSE Raise("TypeError", "unsupported operand type(s) for +", None, fr)
      [] name = "begin" ->
            IF vals = <<>>
            THEN Raise("IndexError", "tuple index out of range", None, fr)
            ELSE Ok(vals[Len(vals)], fr)
      [] name = "==" ->
            IF Len(vals) # 2
            THEN Raise("TypeError", "eq expected 2 arguments", None, fr)
            ELSE Ok(PyEq(vals[1], vals[2]), fr)
      [] name = "null?" ->
            IF Len(vals) # 1
            THEN Raise("TypeError", "<lambda>() takes 1 positional argument",
                       None, fr)
            ELSE Ok(PyEq(vals[1], EmptyList), fr)
      [] name = "list" -> Ok(RList(vals), fr)
      [] name = "cons" ->
            IF Len(vals) # 2
            THEN Raise("TypeError", "<lambda>() takes 2 positional arguments",
                       None, fr)
            ELSE cons(vals[1], vals[2], fr)
      [] name = "cdr" ->
            \* x[1:]: a deque takes no slice, nor does a dict or a number
            IF Len(vals) # 1
            THEN Raise("TypeError", "<lambda>() takes 1 positional argument",
                       None, fr)
            ELSE IF vals[1].tag \in {"vec", "tuple"}
            THEN Ok([vals[1] EXCEPT !.items =
                        IF @ = <<>> THEN <<>> ELSE Tail(@)], fr)
            ELSE IF vals[1].tag = "str" THEN Ok(RString(""), fr)
            ELSE Raise("TypeError", "sequence index must be integer, not 'slice'",
                       None, fr)
      [] OTHER -> Raise("TypeError", "host procedure not modelled", None, fr)

\* The slice of get_global_scope() the model carries.
GlobalFrame ==
    [k \in {Sym("+"), Sym("begin"), Sym("=="), Sym("null?"), Sym("list"),
            Sym("cdr"), Sym("cons"), Sym("None")} |->
        IF k = Sym("None") THEN None ELSE Builtin(k.name)]

(***************************************************************************)
(* Evaluator.eval(tkns, scope).  The `while True` loop of eval is the      *)
(* tail recursion of Eval: a loop iteration keeps `loc`, the local         *)
(* variables test/_true/_false of the invocation, where a nested           *)
(* self.eval(...) starts with none.  `fuel` bounds the nesting depth plus  *)
(* the number of iterations.                                               *)
(***************************************************************************)
NoLoc == [set |-> FALSE, test |-> None, true |-> None, false |-> None]

\* `if scope.get(name):` of define: some map of the chain binds the name to
\* a truthy value.
DefineGuard(scope, fr, name) ==
    LET g == ChainGet(scope, fr, name) IN g.found /\ Truthy(g.val)

\* (variant) the then branch whatever the test gave.
IfBranchThen(val, l) == l.true

\* `_true if self.eval(test, scope) else _false`: the form the loop goes on
\* with.
IfBranch(val, l) == IF Truthy(val) THEN l.true ELSE l.false

\* (variant) a Symbol missing from the scope is returned as it is.
EvalAtomLenient(tkns, scope, fr) ==
    IF ~Hashable(tkns) THEN Raise("TypeError", "unhashable type", None, fr)
    ELSE LET g == ChainGet(scope, fr, tkns) IN
         IF g.found THEN Ok(g.val, fr) ELSE Ok(tkns, fr)

\* The atom branch: scope[tkns], and on KeyError a NameError for a Symbol,
\* the value itself for anything else.
EvalAtom(tkns, scope, fr) ==
    IF ~Hashable(tkns) THEN Raise("TypeError", "unhashable type", None, fr)
    ELSE LET g == ChainGet(scope, fr, tkns) IN
         IF g.found THEN Ok(g.val, fr)
         ELSE IF tkns.tag = "sym"
         THEN Raise("NameError", "symbol is not defined", tkns, fr)
         ELSE Ok(tkns, fr)

\* (variant) the quoted-list check is left out.
EvalContainerCallNoQuoteCheck(tkns, fr) ==
    IF Len(tkns.items) = 2
    THEN GetItem(tkns.items[1], tkns.items[2], fr)
    ELSE Raise("SyntaxError", "Invalid function call", None, fr)

\* (variant) the argument count is not checked.
EvalContainerCallAnyArity(tkns, fr) ==
    LET head == tkns.items[1] IN
    IF Len(tkns.items) >= 2
    THEN IF head.tag = "list" /\ Len(head.items) = 0
         THEN Raise("IndexError", "deque index out of range", None, fr)
         ELSE IF head.tag = "list" /\ head.items[1] = Sym("quote")
         THEN Raise("SyntaxError", "Cannot index into quoted list", None, fr)
         ELSE GetItem(head, tkns.items[2], fr)
    ELSE Raise("SyntaxError", "Invalid function call", None, fr)

\* The container branch: (<CONTAINER> KEY/INDEX) -> VALUE.  The key is the
\* token itself; it is not evaluated.
EvalContainerCall(tkns, fr) ==
    LET head == tkns.items[1] IN
    IF Len(tkns.items) = 2
    THEN IF head.tag = "list" /\ Len(head.items) = 0
         THEN Raise("IndexError", "deque index out of range", None, fr)
         ELSE IF head.tag = "list" /\ head.items[1] = Sym("quote")
         THEN Raise("SyntaxError", "Cannot index into quoted list", None, fr)
         ELSE GetItem(head, tkns.items[2], fr)
    ELSE Raise("SyntaxError", "Invalid function call", None, fr)

RECURSIVE Eval(_, _, _, _, _)
RECURSIVE EvalArgs(_, _, _, _)
RECURSIVE EvalQuasi(_, _, _, _, _)
RECURSIVE EvalCall(_, _, _, _, _)

\* args = [self.eval(exp, scope) for exp in arg_vals]: left to right, the
\* first exception ends it.
EvalArgs(exps, scope, fr, fuel) ==
    IF exps = <<>> THEN [res |-> Ok(None, fr), vals |-> <<>>]
    ELSE LET r == Eval(Head(exps), scope, fr, NoLoc, fuel) IN
         IF r.st # "ok" THEN [res |-> r, vals |-> <<>>]
         ELSE LET rest == EvalArgs(Tail(exps), scope, r.frames, fuel) IN
              [res |-> rest.res, vals |-> <<r.val>> \o rest.vals]

\* (variant) quasiquote as quote: no marker is looked at.
EvalQuasiAsQuote(elems, rep, scope, fr, fuel) ==
    IF elems = <<>> THEN Ok(RList(rep), fr)
    ELSE EvalQuasi(Tail(elems), Append(rep, Head(elems)), scope, fr, fuel)

\* The quasiquote loop over iter(exp); `rep` is the list built so far.
EvalQuasi(elems, rep, scope, fr, fuel) ==
    IF elems = <<>> THEN Ok(RList(rep), fr)
    ELSE IF Head(elems) = Sym("~")
    THEN IF Len(elems) < 2 THEN Raise("StopIteration", "", None, fr)
         ELSE LET r == Eval(elems[2], scope, fr, NoLoc, fuel) IN
              IF r.st # "ok" THEN r
              ELSE EvalQuasi(Tail(Tail(elems)), Append(rep, r.val),
                             scope, r.frames, fuel)
    ELSE IF Head(elems) = Sym("~@")
    THEN IF Len(elems) < 2 THEN Raise("StopIteration", "", None, fr)
         ELSE LET r == Eval(elems[2], scope, fr, NoLoc, fuel)
                  expression == IF r.st = "TypeError" THEN elems[2] ELSE r.val
              IN  IF r.st \notin {"ok", "TypeError"} THEN r
                  ELSE IF expression.tag # "list"
                  THEN Raise("SyntaxError", "Can only use ~@ on an expression",
                             None, r.frames)
                  ELSE EvalQuasi(Tail(Tail(elems)), rep \o expression.items,
                                 scope, r.frames, fuel)
    ELSE EvalQuasi(Tail(elems), Append(rep, Head(elems)), scope, fr, fuel)

\* The call branch: call, *args = tkns.
EvalCall(tkns, scope, fr, loc, fuel) ==
    LET call == tkns.items[1]
        args == Tail(tkns.items)
    IN
    CASE call = Sym("quote") ->
            IF args = <<>>
            THEN Raise("IndexError", "list index out of range", None, fr)
            ELSE Ok(args[1], fr)
      [] call = Sym("quasiquote") ->
            IF args = <<>>
            THEN Raise("IndexError", "list index out of range", None, fr)
            ELSE IF ~IsContainer(args[1])
            THEN Raise("TypeError", "object has no len()", None, fr)
            ELSE IF PyLen(args[1]) = 1 THEN Ok(args[1], fr)
            ELSE IF args[1].tag = "dict"
            THEN EvalQuasi([i \in 1..PyLen(args[1]) |-> args[1].items[2 * i - 1]],
                           <<>>, scope, fr, fuel - 1)
            ELSE EvalQuasi(args[1].items, <<>>, scope, fr, fuel - 1)
      [] call = Sym("define") ->
            IF Len(args) # 2
            THEN Raise("ValueError", "unpack: expected 2", None, fr)
            ELSE IF ~Hashable(args[1])
            THEN Raise("TypeError", "unhashable type", None, fr)
            ELSE IF DefineGuard(scope, fr, args[1])
            THEN Raise("SyntaxError", "use set! to modify a stored symbol",
                       None, fr)
            ELSE LET r == Eval(args[2], scope, fr, NoLoc, fuel - 1) IN
                 IF r.st # "ok" THEN r
                 ELSE Ok(None, ChainSet(scope, r.frames, args[1], r.val))
      [] call = Sym("defn") ->
            LET a == IF Len(args) = 4 THEN <<args[1], args[3], args[4]>>
                     ELSE args
                doc == IF Len(args) = 4 THEN args[2].name ELSE ""
            IN  IF Len(a) # 3
                THEN Raise("ValueError", "unpack: expected 3", None, fr)
                ELSE IF ~Hashable(a[1])
                THEN Raise("TypeError", "unhashable type", None, fr)
                ELSE LET c == Capture(scope, fr) IN
                     Ok(None, ChainSet(scope, c.frames, a[1],
                                       Func(a[2], doc, a[3], c.scope)))
      [] call = Sym("defmacro") ->
            Raise("SyntaxError", "haven't finished macros!", None, fr)
      [] call = Sym("set") ->
            IF Len(args) # 2
            THEN Raise("ValueError", "unpack: expected 2", None, fr)
            ELSE LET r == Eval(args[2], scope, fr, NoLoc, fuel - 1) IN
                 IF r.st # "ok" THEN r
                 ELSE IF ~Hashable(args[1])
                 THEN Raise("TypeError", "unhashable type", None, r.frames)
                 ELSE Ok(None, ChainSet(scope, r.frames, args[1], r.val))
      [] call = Sym("if") ->
            LET l == IF Len(args) = 3
                     THEN [set |-> TRUE, test |-> args[1], true |-> args[2],
                           false |-> args[3]]
                     ELSE IF Len(args) = 2
                     THEN [set |-> TRUE, test |-> args[1], true |-> args[2],
                           false |-> None]
                     ELSE loc
            IN  IF ~l.set
                THEN Raise("UnboundLocalError", "test referenced before assignment",
                           None, fr)
                ELSE LET t == Eval(l.test, scope, fr, NoLoc, fuel - 1) IN
                     IF t.st # "ok" THEN t
                     ELSE Eval(IfBranch(t.val, l), scope, t.frames, l, fuel - 1)
      [] call = Sym("eval") ->
            IF args = <<>>
            THEN Raise("IndexError", "list index out of range", None, fr)
            ELSE IF args[1].tag = "vec"
            THEN \* isinstance(tokens, list)
                 IF Len(args[1].items) < 2
                 THEN Raise("IndexError", "list index out of range", None, fr)
                 ELSE Eval(args[1].items[2], scope, fr, NoLoc, fuel - 1)
            ELSE IF ~Hashable(args[1])
            THEN Raise("TypeError", "unhashable type", None, fr)
            ELSE LET g == ChainGet(scope, fr, args[1]) IN
                 IF ~g.found THEN Raise("KeyError", "key", args[1], fr)
                 ELSE LET r == Eval(g.val, scope, fr, NoLoc, fuel - 1) IN
                      IF r.st # "ok" THEN r
                      ELSE Eval(r.val, scope, r.frames, loc, fuel - 1)
      [] call = Sym("lambda") ->
            IF Len(args) # 2
            THEN Raise("ValueError", "unpack: expected 2", None, fr)
            ELSE LET c == Capture(scope, fr) IN
                 Ok(Func(args[1], "anonymous lambda", args[2], c.scope),
                    c.frames)
      [] OTHER ->
            LET p == Eval(call, scope, fr, NoLoc, fuel - 1) IN
            IF p.st # "ok" THEN p
            ELSE LET a == EvalArgs(args, scope, p.frames, fuel - 1) IN
                 IF a.res.st # "ok" THEN a.res
                 ELSE IF p.val.tag = "func"
                 THEN LET ns == nested_scope(p.val.scope, p.val.items[1],
                                             a.vals, a.res.frames)
                      IN  IF ns.st # "ok"
                          THEN Raise(ns.st, ns.msg, None, ns.frames)
                          ELSE Eval(p.val.items[2], ns.scope, ns.frames,
                                    loc, fuel - 1)
                 ELSE IF p.val.tag = "builtin"
                 THEN ApplyBuiltin(p.val.name, a.vals, a.res.frames)
                 ELSE Raise("TypeError", "object is not callable", None,
                            a.res.frames)

Eval(tkns, scope, fr, loc, fuel) ==
    IF fuel <= 0 THEN Raise("Diverge", "out of fuel", None, fr)
    ELSE IF tkns.tag = "list"
    THEN IF Truthy(EmptyList__eq__(EmptyList, tkns)) THEN Ok(EmptyList, fr)
         ELSE IF IsContainer(tkns.items[1])
         THEN EvalContainerCall(tkns, fr)
         ELSE EvalCall(tkns, scope, fr, loc, fuel)
    ELSE EvalAtom(tkns, scope, fr)

(***************************************************************************)
(* The depth of eval: how many invocations of Evaluator.eval are on the    *)
(* stack at the deepest point of one evaluation, this one counted.  eval   *)
(* calls itself for the test of an if, for the expression of a define or   *)
(* set, for the head and the operands of an application and for the        *)
(* argument of the eval form; for the selected branch of an if and for the *)
(* body of a closure it assigns tkns (and scope) and goes round its        *)
(* `while True` loop.  quasiquote is not measured.                         *)
(***************************************************************************)
Max(a, b) == IF a >= b THEN a ELSE b

\* (variant) the next expression handed to a nested self.eval(...) call.
LoopNested(d) == d + 1

\* tkns = ...; the loop goes round: the depth of what follows is reached in
\* the same invocation.
Loop(d) == d

RECURSIVE EvalDepth(_, _, _, _, _)
RECURSIVE ArgsDepth(_, _, _, _)

\* args = [self.eval(exp, scope) for exp in arg_vals]
ArgsDepth(exps, scope, fr, fuel) ==
    IF exps = <<>> THEN 0
    ELSE LET r == Eval(Head(exps), scope, fr, NoLoc, fuel) IN
         Max(EvalDepth(Head(exps), scope, fr, NoLoc, fuel),
             IF r.st # "ok" THEN 0
             ELSE ArgsDepth(Tail(exps), scope, r.frames, fuel))

EvalDepth(tkns, scope, fr, loc, fuel) ==
    IF fuel <= 0 \/ tkns.tag # "list" THEN 1
    ELSE IF Truthy(EmptyList__eq__(EmptyList, tkns)) THEN 1
    ELSE IF IsContainer(tkns.items[1]) THEN 1
    ELSE
    LET call == tkns.items[1]
        args == Tail(tkns.items)
    IN
    CASE call \in {Sym("quote"), Sym("defn"), Sym("defmacro"), Sym("lambda")} -> 1
      [] call = Sym("define") ->
            IF Len(args) # 2 \/ ~Hashable(args[1])
               \/ DefineGuard(scope, fr, args[1])
            THEN 1
            ELSE 1 + EvalDepth(args[2], scope, fr, NoLoc, fuel - 1)
      [] call = Sym("set") ->
            IF Len(args) # 2 THEN 1
            ELSE 1 + EvalDepth(args[2], scope, fr, NoLoc, fuel - 1)
      [] call = Sym("if") ->
            LET l == IF Len(args) = 3
                     THEN [set |-> TRUE, test |-> args[1], true |-> args[2],
                           false |-> args[3]]
                     ELSE IF Len(args) = 2
                     THEN [set |-> TRUE, test |-> args[1], true |-> args[2],
                           false |-> None]
                     ELSE loc
            IN  IF ~l.set THEN 1
                ELSE LET t == Eval(l.test, scope, fr, NoLoc, fuel - 1) IN
                     Max(1 + EvalDepth(l.test, scope, fr, NoLoc, fuel - 1),
                         IF t.st # "ok" THEN 1
                         ELSE Loop(EvalDepth(IfBranch(t.val, l), scope,
                                             t.frames, l, fuel - 1)))
      [] call = Sym("eval") ->
            IF args = <<>> THEN 1
            ELSE IF args[1].tag = "vec"
            THEN IF Len(args[1].items) < 2 THEN 1
                 ELSE 1 + EvalDepth(args[1].items[2], scope, fr, NoLoc, fuel - 1)
            ELSE IF ~Hashable(args[1]) THEN 1
            ELSE LET g == ChainGet(scope, fr, args[1]) IN
                 IF ~g.found THEN 1
                 ELSE LET r == Eval(g.val, scope, fr, NoLoc, fuel - 1) IN
                      Max(1 + EvalDepth(g.val, scope, fr, NoLoc, fuel - 1),
                          IF r.st # "ok" THEN 1
                          ELSE Loop(EvalDepth(r.val, scope, r.frames, loc,
                                              fuel - 1)))
      [] call \notin {Sym("quote"), Sym("quasiquote"), Sym("define"),
                      Sym("defn"), Sym("defmacro"), Sym("set"), Sym("if"),
                      Sym("eval"), Sym("lambda")} ->
            LET p == Eval(call, scope, fr, NoLoc, fuel - 1)
                a == EvalArgs(args, scope, p.frames, fuel - 1)
                operands ==
                    Max(1 + EvalDepth(call, scope, fr, NoLoc, fuel - 1),
                        IF p.st # "ok" THEN 1
                        ELSE 1 + ArgsDepth(args, scope, p.frames, fuel - 1))
            IN  IF p.st # "ok" \/ a.res.st # "ok" \/ p.val.tag # "func"
                THEN operands
                ELSE LET ns == nested_scope(p.val.scope, p.val.items[1],
                                            a.vals, a.res.frames)
                     IN  IF ns.st # "ok" THEN operands
                         ELSE Max(operands,
                                  Loop(EvalDepth(p.val.items[2], ns.scope,
                                                 ns.frames, loc, fuel - 1)))

(***************************************************************************)
(* Frames nothing refers to any more are freed (reference counting).  The  *)
(* model frees the unreachable frames at the end of the heap, which are    *)
(* the ones a finished call leaves behind.                                 *)
(***************************************************************************)
RECURSIVE ScopeRefs(_)
\* The frame ids a value refers to.
ScopeRefs(v) ==
    {v.scope[i] : i \in 1..Len(v.scope)}
        \cup UNION {ScopeRefs(v.items[i]) : i \in 1..Len(v.items)}

FrameRefs(fr, i) == UNION {ScopeRefs(fr[i][k]) : k \in DOMAIN fr[i]}

RECURSIVE ReachFrom(_, _, _)
ReachFrom(fr, seen, n) ==
    IF n = 0 THEN seen
    ELSE ReachFrom(fr,
                   seen \cup UNION {FrameRefs(fr, i) : i \in seen \cap (1..Len(fr))},
                   n - 1)

\* The ids of the frames reachable from the global scope.
Reachable(fr) == ReachFrom(fr, {1}, Len(fr)) \cap (1..Len(fr))

Collect(fr) ==
    LET top == CHOOSE i \in Reachable(fr) : \A j \in Reachable(fr) : j <= i
    IN  SubSeq(fr, 1, top)

(***************************************************************************)
(* The session: REPL.eval_and_print(exp) on the global scope.  An          *)
(* exception is reported and the session goes on with the heap as the      *)
(* failed evaluation left it.  `last` records the form read and what eval  *)
(* did with it.  An evaluation that runs out of fuel is one that does not  *)
(* return ("Diverge"): the session reads no further form after it.         *)
(***************************************************************************)
Init ==
    /\ frames = <<GlobalFrame>>
    /\ last = [kind |-> "init", form |-> None, st |-> "ok", val |-> None,
               msg |-> ""]

EvalAndPrint(kind, form) ==
    LET r == Eval(form, <<1>>, frames, NoLoc, MaxFuel)
        kept == Collect(r.frames)
    IN  /\ last.st # "Diverge"
        /\ Len(kept) <= MaxFrames
        /\ frames' = kept
        /\ last' = [kind |-> kind, form |-> form, st |-> r.st, val |-> r.val,
                    msg |-> r.msg]

\* S-expressions of the forms.
Begin2(a, b) == L3(Sym("begin"), a, b)
Define(name, e) == L3(Sym("define"), Sym(name), e)
Lambda(params, body) == L3(Sym("lambda"), params, body)
Defn(name, params, body) == L4(Sym("defn"), Sym(name), params, body)

(***************************************************************************)
(* Spec: scopes.  The session defines and sets x and y, defines f as one   *)
(* of a few closures, calls it, and keeps a closure made by a call as g.   *)
(* zz is a name no form binds.                                             *)
(***************************************************************************)
\* () -> y: reads a name of its defining scope.
ShReadsY == <<EmptyList, Sym("y")>>

\* (x) -> x: a parameter named like a name of the enclosing scope.
ShParamX == <<L1(Sym("x")), Sym("x")>>

\* (a) -> (begin (define y a) y): defines a name its frame does not hold.
ShDefinesY == <<L1(Sym("a")), Begin2(Define("y", Sym("a")), Sym("y"))>>

\* (x) -> (begin (define x 2) x): defines the name of its parameter.
ShDefinesParam == <<L1(Sym("x")), Begin2(Define("x", PyInt(2)), Sym("x"))>>

\* (x) -> (lambda (b) (begin (define y b) (+ x y))): returns a closure over
\* the frame of the call.
ShMakesClosure ==
    <<L1(Sym("x")),
      Lambda(L1(Sym("b")),
             Begin2(Define("y", Sym("b")), L3(Sym("+"), Sym("x"), Sym("y"))))>>

\* (a) -> (begin (define h (lambda () y)) (define y a) (h)): makes the
\* closure h, then defines the y that h reads, then calls h.
ShLateY ==
    <<L1(Sym("a")),
      L4(Sym("begin"), Define("h", Lambda(EmptyList, Sym("y"))),
         Define("y", Sym("a")), L1(Sym("h")))>>

ScopeShapes ==
    {ShReadsY, ShParamX, ShDefinesY, ShDefinesParam, ShMakesClosure, ShLateY}

ReadSymbol ==
    \E s \in {"x", "y", "zz"} : EvalAndPrint("symbol", Sym(s))

ReadDefine ==
    \E d \in {<<"x", PyInt(0)>>, <<"x", PyInt(1)>>, <<"y", PyInt(1)>>,
              <<"+", PyInt(1)>>} :
        EvalAndPrint("define", Define(d[1], d[2]))

ReadSet ==
    \E v \in {PyInt(0), PyInt(1)} :
        EvalAndPrint("set", L3(Sym("set"), Sym("x"), v))

ReadDefn ==
    \E sh \in ScopeShapes : EvalAndPrint("defn", Defn("f", sh[1], sh[2]))

ReadCall ==
    \E a \in {<<>>, <<PyInt(0)>>, <<PyInt(1)>>, <<Sym("zz")>>} :
        EvalAndPrint("call", RList(<<Sym("f")>> \o a))

ReadDefineG ==
    EvalAndPrint("defineg", Define("g", L2(Sym("f"), PyInt(1))))

ReadCallG ==
    EvalAndPrint("callg", L2(Sym("g"), PyInt(2)))

Next ==
    \/ ReadSymbol
    \/ ReadDefine
    \/ ReadSet
    \/ ReadDefn
    \/ ReadCall
    \/ ReadDefineG
    \/ ReadCallG

Spec == Init /\ [][Next]_vars

(***************************************************************************)
(* What the properties below speak about.                                  *)
(***************************************************************************)
\* The scope chains held in a heap: the global scope and the defining
\* scopes of the closures bound in its frames.
Chains(fr) ==
    {<<1>>} \cup
    {sc \in UNION {{fr[i][k].scope : k \in {q \in DOMAIN fr[i] : fr[i][q].tag = "func"}}
                      : i \in 1..Len(fr)}
        : \A j \in 1..Len(sc) : sc[j] <= Len(fr)}

\* Some frame of the chain binds the key.
Bound(sc, fr, key) == \E i \in 1..Len(sc) : key \in DOMAIN fr[sc[i]]

\* The binding of the key in the first frame of the chain that has one.
Innermost(sc, fr, key) ==
    LET i == CHOOSE q \in 1..Len(sc) :
                /\ key \in DOMAIN fr[sc[q]]
                /\ \A j \in 1..(q - 1) : key \notin DOMAIN fr[sc[j]]
    IN  fr[sc[i]][key]

ProbeSyms == {Sym("x"), Sym("y"), Sym("zz"), Sym("a"), Sym("b"), Sym("h")}

\* The parameter list and body of the closure bound to a global name.
ShapeOf(fr, name) ==
    IF Sym(name) \in DOMAIN fr[1] /\ fr[1][Sym(name)].tag = "func"
    THEN fr[1][Sym(name)].items
    ELSE <<None, None>>

\* The argument forms of a call form.
ArgsOf(form) == Tail(form.items)

IsLit(v) == v.tag = "int"

\* C1: evaluating a Symbol bound in no frame of the scope chain raises a
\* NameError that names the symbol and returns no value: in every chain of
\* every reachable heap, as a top-level form, and as the argument of a call.
C1_UnboundSymbolNameError ==
    /\ \A sc \in Chains(frames), s \in ProbeSyms :
          ~Bound(sc, frames, s) =>
              LET r == Eval(s, sc, frames, NoLoc, MaxFuel)
              IN  r.st = "NameError" /\ r.val = s /\ r.frames = frames
    /\ (last.kind = "symbol" /\ ~Bound(<<1>>, frames, last.form)) =>
          (last.st = "NameError" /\ last.val = last.form)
    /\ (/\ last.kind = "call"
        /\ ArgsOf(last.form) = <<Sym("zz")>>
        /\ ShapeOf(frames, "f")[1] # None) =>
          (last.st = "NameError" /\ last.val = Sym("zz"))

C1_Witness ==
    /\ last.kind = "symbol"
    /\ last.form = Sym("zz")
    /\ last.st = "NameError"
    /\ last.val = Sym("zz")

\* C2: define binds its name in the innermost frame of the scope it runs in
\* and leaves every enclosing frame unchanged: a call of a closure whose body
\* runs a define leaves every frame that existed before the call as it was
\* (the closure's defining scope and the global scope among them), the body
\* sees the new binding, and a top-level define changes the global frame only.
C2_DefineInnermostFrameOnly ==
    [][ /\ last'.kind \in {"call", "callg"} =>
              \A i \in 1..Len(frames) : i <= Len(frames') /\ frames'[i] = frames[i]
        /\ (/\ last'.kind = "call"
            /\ ShapeOf(frames, "f") = ShDefinesY
            /\ Len(ArgsOf(last'.form)) = 1
            /\ IsLit(ArgsOf(last'.form)[1])
            /\ ~Bound(<<1>>, frames, Sym("y"))) =>
              (last'.st = "ok" /\ last'.val = ArgsOf(last'.form)[1])
        /\ (/\ last'.kind = "callg"
            /\ ShapeOf(frames, "g")[1] = L1(Sym("b"))
            /\ ~Bound(<<1>>, frames, Sym("y"))) =>
              (last'.st = "ok" /\ ~Bound(<<1>>, frames', Sym("y")))
        /\ (last'.kind = "define" /\ last'.st = "ok") =>
              /\ frames'[1] = Put(frames[1], last'.form.items[2], last'.form.items[3])
              /\ \A i \in 2..Len(frames) : i <= Len(frames') /\ frames'[i] = frames[i]
      ]_vars

C2_Witness ==
    /\ last.kind = "callg"
    /\ last.st = "ok"
    /\ last.val = PyInt(3)
    /\ Len(frames) = 2
    /\ DOMAIN frames[2] = {Sym("x")}
    /\ ~Bound(<<1>>, frames, Sym("y"))

\* C3: (define name expr) raises an error whenever name is already bound in
\* the current frame, whatever its value, and leaves the binding unchanged;
\* it raises no such error for a name bound only in an enclosing frame.
C3_DefineErrorIffBoundInCurrentFrame ==
    [][ /\ last'.kind = "define" =>
              IF last'.form.items[2] \in DOMAIN frames[1]
              THEN last'.st = "SyntaxError" /\ frames' = frames
              ELSE last'.st = "ok"
        /\ (/\ last'.kind = "call"
            /\ ShapeOf(frames, "f") = ShDefinesY
            /\ Len(ArgsOf(last'.form)) = 1
            /\ IsLit(ArgsOf(last'.form)[1])) =>
              last'.st = "ok"
      ]_vars

\* C4: a closure holds its defining scope by reference: a binding added to
\* that scope after the closure was made is visible to its body on every
\* later call.  f = () -> y made while y is unbound returns y once a later
\* define has bound y; and a closure made inside a call sees the y defined
\* in that call's frame after it was made.
C4_ClosureSharesDefiningScope ==
    [][ /\ (/\ ShapeOf(frames, "f") = ShReadsY
            /\ ~Bound(<<1>>, frames, Sym("y"))
            /\ last'.kind = "define"
            /\ last'.form.items[2] = Sym("y")) =>
              LET r == Eval(L1(Sym("f")), <<1>>, frames', NoLoc, MaxFuel)
              IN  r.st = "ok" /\ r.val = last'.form.items[3]
        /\ (/\ last'.kind = "call"
            /\ last'.form = L1(Sym("f"))
            /\ ShapeOf(frames, "f") = ShReadsY
            /\ Bound(<<1>>, frames, Sym("y"))) =>
              (last'.st = "ok" /\ last'.val = frames[1][Sym("y")])
        /\ (/\ last'.kind = "call"
            /\ ShapeOf(frames, "f") = ShLateY
            /\ Len(ArgsOf(last'.form)) = 1
            /\ IsLit(ArgsOf(last'.form)[1])
            /\ ~Bound(<<1>>, frames, Sym("y"))) =>
              (last'.st = "ok" /\ last'.val = ArgsOf(last'.form)[1])
      ]_vars

C4_Witness ==
    /\ last.kind = "call"
    /\ ShapeOf(frames, "f") = ShLateY
    /\ last.form = L2(Sym("f"), PyInt(1))
    /\ last.st = "ok"
    /\ last.val = PyInt(1)
    /\ ~Bound(<<1>>, frames, Sym("y"))

\* C5: a lookup returns the binding of the innermost frame that binds the
\* name: in every chain of every reachable heap; a parameter x shadows the x
\* of the enclosing scope inside the body; and after the call the enclosing
\* scope still yields its own x.
C5_InnermostBindingWins ==
    [][ /\ \A sc \in Chains(frames'), s \in ProbeSyms :
              Bound(sc, frames', s) =>
                  Eval(s, sc, frames', NoLoc, MaxFuel)
                      = Ok(Innermost(sc, frames', s), frames')
        /\ (/\ last'.kind = "call"
            /\ ShapeOf(frames, "f") = ShParamX
            /\ Len(ArgsOf(last'.form)) = 1
            /\ IsLit(ArgsOf(last'.form)[1])) =>
              /\ last'.st = "ok"
              /\ last'.val = ArgsOf(last'.form)[1]
              /\ Eval(Sym("x"), <<1>>, frames', NoLoc, MaxFuel).val
                    = Eval(Sym("x"), <<1>>, frames, NoLoc, MaxFuel).val
        /\ (last'.kind = "symbol" /\ Bound(<<1>>, frames, last'.form)) =>
              (last'.st = "ok" /\ last'.val = frames[1][last'.form])
      ]_vars

C5_Witness ==
    /\ last.kind = "call"
    /\ ShapeOf(frames, "f") = ShParamX
    /\ last.form = L2(Sym("f"), PyInt(0))
    /\ last.st = "ok"
    /\ last.val = PyInt(0)
    /\ Bound(<<1>>, frames, Sym("x"))
    /\ frames[1][Sym("x")] = PyInt(1)

(***************************************************************************)
(* SpecBind: parameter binding.  The session defines f with a parameter    *)
(* list of every kind and calls it with 0 to 3 arguments.                  *)
(***************************************************************************)
\* Longest argument list of a call.
MaxArgs == 3

\* Parameter list and body; the body is the name whose binding the call
\* returns.
BindShapes ==
    { <<EmptyList, PyInt(2)>>,
      <<L1(Sym("a")), Sym("a")>>,
      <<L2(Sym("a"), Sym("b")), Sym("b")>>,
      <<L2(Sym("a"), Sym("a")), Sym("a")>>,
      <<L3(Sym("a"), Sym("b"), Sym("c")), Sym("a")>>,
      <<L1(Symbol(1, "xs")), Sym("xs")>>,
      <<L1(Symbol(1, "xs")), Symbol(1, "xs")>>,
      <<L1(Symbol(2, "kw")), Sym("kw")>>,
      <<L2(Sym("a"), Symbol(1, "xs")), Sym("xs")>>,
      <<L2(Sym("a"), Symbol(1, "xs")), Symbol(1, "xs")>>,
      <<L2(Sym("a"), Symbol(1, "xs")), Sym("a")>>,
      <<L3(Sym("a"), Sym("b"), Symbol(1, "xs")), Sym("xs")>>,
      <<L2(Symbol(1, "xs"), Sym("a")), Sym("a")>>,
      \* bodies that raise NameError when they are evaluated
      <<EmptyList, Sym("zz")>>,
      <<L1(Sym("a")), Sym("zz")>>,
      <<L2(Sym("a"), Sym("b")), Sym("zz")>> }

\* The argument lists: literals 1, 2, ... in order, or all 0.
BindArgs ==
    {[i \in 1..n |-> PyInt(i)] : n \in 0..MaxArgs}
        \cup {[i \in 1..n |-> PyInt(0)] : n \in 1..MaxArgs}

BindDefn ==
    \E sh \in BindShapes : EvalAndPrint("defn", Defn("f", sh[1], sh[2]))

BindCall ==
    \E a \in BindArgs : EvalAndPrint("call", RList(<<Sym("f")>> \o a))

NextBind == BindDefn \/ BindCall

SpecBind == Init /\ [][NextBind]_vars

\* The parameters are a list of plain names: no rest name among them.
FixedOnly(params) ==
    /\ params.tag = "list"
    /\ \A i \in 1..Len(params.items) :
          params.items[i].tag = "sym" /\ params.items[i].n = 0

ArityMessages ==
    { "expected 1 positional argument", "missing positional arguments",
      "too many positional arguments" }

\* C6: calling a closure that has only fixed parameters with a number of
\* arguments different from the number of parameters raises the arity error
\* of nested_scope (a SyntaxError) and does not evaluate the body (a body
\* that would raise NameError does not get to), for every parameter count
\* from 0 up.
C6_FixedArityMismatchRaises ==
    (/\ last.kind = "call"
     /\ FixedOnly(ShapeOf(frames, "f")[1])
     /\ Len(ArgsOf(last.form)) # Len(ShapeOf(frames, "f")[1].items)) =>
        /\ last.st = "SyntaxError"
        /\ last.msg \in ArityMessages
        /\ last.val = None

C6_Witness ==
    /\ last.kind = "call"
    /\ ShapeOf(frames, "f") = <<EmptyList, Sym("zz")>>
    /\ last.form = L2(Sym("f"), PyInt(1))
    /\ last.st = "SyntaxError"
    /\ last.msg = "too many positional arguments"

\* C7: calling a closure whose only parameter is a rest name *xs binds xs to
\* a sequence holding all call arguments in order, for every argument count
\* (zero, one or more); the bound value is always a sequence.
C7_RestOnlyBindsSequence ==
    (/\ last.kind = "call"
     /\ ShapeOf(frames, "f") = <<L1(Symbol(1, "xs")), Sym("xs")>>) =>
        /\ last.st = "ok"
        /\ IsSequence(last.val)
        /\ last.val.items = ArgsOf(last.form)

\* C8: calling a closure whose parameters are k fixed names followed by a
\* rest name with n >= k arguments binds the fixed names to the first k
\* arguments and the rest name to the sequence of the remaining n - k.
C8_FixedThenRestBinds ==
    /\ (/\ last.kind = "call"
        /\ ShapeOf(frames, "f") = <<L2(Sym("a"), Symbol(1, "xs")), Sym("xs")>>
        /\ Len(ArgsOf(last.form)) >= 1) =>
          /\ last.st = "ok"
          /\ IsSequence(last.val)
          /\ last.val.items = Tail(ArgsOf(last.form))
    /\ (/\ last.kind = "call"
        /\ ShapeOf(frames, "f") = <<L2(Sym("a"), Symbol(1, "xs")), Sym("a")>>
        /\ Len(ArgsOf(last.form)) >= 1) =>
          (last.st = "ok" /\ last.val = ArgsOf(last.form)[1])

(***************************************************************************)
(* SpecIndex: forms whose head is a container.                             *)
(***************************************************************************)
Elems == <<PyInt(1), PyInt(2), PyInt(0)>>

Heads ==
    { RVector(Elems), RVector(<<>>), RList(Elems), EmptyList,
      L2(Sym("x"), PyInt(1)),
      RVector(<<Sym("quote"), PyInt(1)>>),
      RDict(<<PyInt(1), PyInt(2), Keyword("k"), PyInt(0)>>),
      L2(Sym("quote"), RList(Elems)),
      L2(Sym("quote"), EmptyList),
      L3(Sym("quote"), PyInt(1), PyInt(2)),
      Lambda(L1(Sym("x")), Sym("x")) }

Keys ==
    { PyInt(0), PyInt(1), PyInt(2), PyInt(3), PyInt(-1), PyInt(-3), PyInt(-4),
      Keyword("k"), Sym("x") }

KeyLists ==
    {<<>>} \cup {<<k>> : k \in Keys}
        \cup {<<PyInt(0), PyInt(1)>>, <<PyInt(1), PyInt(1)>>,
              <<PyInt(0), PyInt(1), PyInt(2)>>}

IndexCall ==
    \E h \in Heads, k \in KeyLists :
        EvalAndPrint("container", RList(<<h>> \o k))

\* The same forms with x bound or not: a key is a token, not a name.
IndexDefine ==
    EvalAndPrint("define", Define("x", PyInt(0)))

NextIndex == IndexCall \/ IndexDefine

SpecIndex == Init /\ [][NextIndex]_vars

\* head[key] as Python defines it for a deque or a list (a position from 0,
\* or from -1 back from the end) and for a dict (a key it holds).
Subscript(head, key) ==
    IF head.tag = "dict"
    THEN LET hits == {j \in 1..(Len(head.items) \div 2) : head.items[2 * j - 1] = key}
         IN  IF hits = {} THEN [ok |-> FALSE, val |-> None]
             ELSE [ok |-> TRUE, val |-> head.items[2 * (CHOOSE j \in hits : TRUE)]]
    ELSE IF key.tag = "int" /\ key.n >= 0 /\ key.n < Len(head.items)
    THEN [ok |-> TRUE, val |-> head.items[key.n + 1]]
    ELSE IF key.tag = "int" /\ key.n < 0 /\ key.n >= -Len(head.items)
    THEN [ok |-> TRUE, val |-> head.items[Len(head.items) + key.n + 1]]
    ELSE [ok |-> FALSE, val |-> None]

\* The head of the last form is a quote form.
QuoteHead(head) ==
    head.tag = "list" /\ Len(head.items) >= 1 /\ head.items[1] = Sym("quote")

\* A form with head `head` evaluated as an index into it.
IndexesInto(head) ==
    IF Len(ArgsOf(last.form)) = 1
    THEN IF Subscript(head, ArgsOf(last.form)[1]).ok
         THEN /\ last.st = "ok"
              /\ last.val = Subscript(head, ArgsOf(last.form)[1]).val
         ELSE last.st \notin {"ok", "SyntaxError"}
    ELSE last.st = "SyntaxError"

\* C9 as stated: a form whose head is a List, Vector or Dict value evaluates
\* to head[argument] when it has exactly one argument, and raises SyntaxError
\* when it has zero or two or more.
C9_ContainerCallIndexes ==
    (last.kind = "container" /\ last.form.items[1].tag \in {"list", "vec", "dict"}) =>
        IndexesInto(last.form.items[1])

\* C9 as amended: the same, except that a List head whose first element is
\* the symbol quote raises SyntaxError with one argument too.
C9_ContainerCallIndexesUnlessQuoted ==
    (last.kind = "container" /\ last.form.items[1].tag \in {"list", "vec", "dict"}) =>
        IF QuoteHead(last.form.items[1])
        THEN last.st = "SyntaxError"
        ELSE IndexesInto(last.form.items[1])

C9_Witness ==
    /\ last.kind = "container"
    /\ last.form = L2(RDict(<<PyInt(1), PyInt(2), Keyword("k"), PyInt(0)>>),
                      Keyword("k"))
    /\ last.st = "ok"
    /\ last.val = PyInt(0)

\* C10: index syntax applied to a quoted list, ((quote L) i), raises
\* SyntaxError for every list L and index i and returns no value.
C10_QuotedListIndexRaises ==
    (/\ last.kind = "container"
     /\ Len(last.form.items) = 2
     /\ last.form.items[1].tag = "list"
     /\ Len(last.form.items[1].items) = 2
     /\ last.form.items[1].items[1] = Sym("quote")
     /\ last.form.items[1].items[2].tag = "list") =>
        /\ last.st = "SyntaxError"
        /\ last.msg = "Cannot index into quoted list"
        /\ last.val = None

C10_Witness ==
    /\ last.kind = "container"
    /\ last.form = L2(L2(Sym("quote"), RList(Elems)), PyInt(1))
    /\ last.st = "SyntaxError"
    /\ last.msg = "Cannot index into quoted list"

\* C11: a form whose head is a special form producing a procedure, such as
\* ((lambda (x) x) 5), is a procedure application: the head is evaluated to a
\* closure and applied to the evaluated argument, so the identity closure
\* returns its argument.
C11_LambdaHeadIsApplied ==
    (/\ last.kind = "container"
     /\ last.form.items[1] = Lambda(L1(Sym("x")), Sym("x"))
     /\ Len(ArgsOf(last.form)) = 1
     /\ IsLit(ArgsOf(last.form)[1])) =>
        (last.st = "ok" /\ last.val = ArgsOf(last.form)[1])

(***************************************************************************)
(* SpecAtom: forms that are neither a Symbol nor an s-expression, read at  *)
(* top level and as the body of a closure, in scopes where a literal may   *)
(* itself have been used as the name of a set.                             *)
(***************************************************************************)
Atoms ==
    { PyInt(0), PyInt(1), Keyword("k"), RString("a"), RString(""),
      RVector(<<>>), RVector(<<PyInt(1), PyInt(2)>>),
      RDict(<<>>), RDict(<<PyInt(1), PyInt(2)>>) }

AtomRead ==
    \E a \in Atoms : EvalAndPrint("atom", a)

AtomSet ==
    \E k \in {PyInt(1), Keyword("k")} :
        EvalAndPrint("set", L3(Sym("set"), k, PyInt(5)))

AtomDefn ==
    \E a \in Atoms : EvalAndPrint("defn", Defn("f", EmptyList, a))

AtomCall ==
    EvalAndPrint("call", L1(Sym("f")))

\* The form () as the reader hands it over.
ReadEmpty ==
    EvalAndPrint("empty", EmptyList)

\* Forms whose value is compared with the value of ().
EmptyOperands ==
    { EmptyList, L2(Sym("quote"), EmptyList), Sym("None"), L1(Sym("list")),
      L2(Sym("list"), PyInt(1)), L2(Sym("quote"), RList(Elems)),
      L2(Sym("quote"), L1(EmptyList)) }

\* (== () o) and (== o ()).
CompareEmpty ==
    \E o \in EmptyOperands, flip \in BOOLEAN :
        EvalAndPrint("eq", IF flip THEN L3(Sym("=="), o, EmptyList)
                              ELSE L3(Sym("=="), EmptyList, o))

NextAtom ==
    AtomRead \/ AtomSet \/ AtomDefn \/ AtomCall \/ ReadEmpty \/ CompareEmpty

SpecAtom == Init /\ [][NextAtom]_vars

\* C12: evaluating a value that is neither a Symbol nor a List (a number, a
\* string, a keyword, a Vector literal, a Dict literal) returns that value
\* unchanged, in every scope: at top level and as the body of a closure.
C12_AtomsSelfEvaluate ==
    /\ last.kind = "atom" => (last.st = "ok" /\ last.val = last.form)
    /\ (last.kind = "call" /\ ShapeOf(frames, "f")[1] # None) =>
          (last.st = "ok" /\ last.val = ShapeOf(frames, "f")[2])

\* List values the value of () is compared with.
ListValues ==
    { EmptyList, RList(<<>>), RList(<<PyInt(1)>>), RList(Elems),
      RList(<<EmptyList>>), RList(<<None>>) }

\* The operand of a comparison with (): the argument that is not ().
OperandOf(form) ==
    IF form.items[2] = EmptyList THEN form.items[3] ELSE form.items[2]

\* The operands whose value is None or an empty List.
EmptyValued ==
    {EmptyList, L2(Sym("quote"), EmptyList), Sym("None"), L1(Sym("list"))}

MaxTicks == 1

\* (begin (set c (+ c 1)) v): a test that counts its evaluations.
Tick(v) ==
    Begin2(L3(Sym("set"), Sym("c"), L3(Sym("+"), Sym("c"), PyInt(1))), v)

\* (begin (set name 1) v): a branch that leaves a mark.
Mark(name, v) == Begin2(L3(Sym("set"), Sym(name), PyInt(1)), v)

TestVals ==
    { PyInt(0), PyInt(1), EmptyList, Sym("None"),
      L2(Sym("quote"), L1(PyInt(1))) }

ThenForms ==
    { PyInt(0), EmptyList, Mark("t", PyInt(0)), Mark("t", PyInt(7)),
      Mark("t", Sym("None")) }

ElseForms == { PyInt(0), Mark("e", PyInt(0)), Mark("e", PyInt(8)) }

\* if forms with 0, 1 and 4 argument forms.
BadIfs ==
    { L1(Sym("if")),
      L2(Sym("if"), Tick(PyInt(1))),
      RList(<<Sym("if"), Tick(PyInt(1)), Mark("t", PyInt(7)),
              Mark("e", PyInt(8)), PyInt(0)>>) }

\* The counter and the marks are bound and the counter is below its bound.
CanTick ==
    /\ {Sym("c"), Sym("t"), Sym("e")} \subseteq DOMAIN frames[1]
    /\ frames[1][Sym("c")].n < MaxTicks

IfReset ==
    EvalAndPrint("reset",
                 L4(Sym("begin"), L3(Sym("set"), Sym("c"), PyInt(0)),
                    L3(Sym("set"), Sym("t"), PyInt(0)),
                    L3(Sym("set"), Sym("e"), PyInt(0))))

\* (if test then else).
IfRead3 ==
    /\ CanTick
    /\ \E v \in TestVals, th \in ThenForms, el \in ElseForms :
          EvalAndPrint("if", L4(Sym("if"), Tick(v), th, el))

\* (if test then).
IfRead2 ==
    /\ CanTick
    /\ \E v \in TestVals, th \in ThenForms :
          EvalAndPrint("if", L3(Sym("if"), Tick(v), th))

\* An if form of another arity, at top level.
IfReadBad ==
    /\ CanTick
    /\ \E b \in BadIfs : EvalAndPrint("badif", b)

\* An if form of another arity as the then or the else of an if form.
IfReadBadTail ==
    /\ CanTick
    /\ \E b \in BadIfs, v \in {PyInt(0), PyInt(1)} :
          EvalAndPrint("badtail", L4(Sym("if"), v, b, b))

\* (defn k () b) for an if form b of another arity.
IfDefnBad ==
    \E b \in BadIfs : EvalAndPrint("defn", Defn("k", EmptyList, b))

\* (k): the if form is the body of the closure.
IfCallBad ==
    /\ CanTick
    /\ Sym("k") \in DOMAIN frames[1]
    /\ EvalAndPrint("badbody", L1(Sym("k")))

NextIf ==
    \/ IfReset
    \/ IfRead3
    \/ IfRead2
    \/ IfReadBad
    \/ IfReadBadTail
    \/ IfDefnBad
    \/ IfCallBad

SpecIf == Init /\ [][NextIf]_vars

\* C14: an if form with fewer than 2 or more than 3 argument forms raises
\* SyntaxError wherever it is evaluated (at top level, as the tail of an
\* earlier if, as the body of a closure) and evaluates none of its argument
\* forms: the counter and the marks stay as they were.
C14_IfBadArityRaises ==
    [][ last'.kind \in {"badif", "badtail", "badbody"} =>
            /\ last'.st = "SyntaxError"
            /\ frames' = frames
      ]_vars

\* The value of a literal form of the if forms: None for the name None, the
\* quoted list for a quote form, the form itself otherwise.
LitValue(v) ==
    IF v = Sym("None") THEN None
    ELSE IF v.tag = "list" /\ Len(v.items) = 2 /\ v.items[1] = Sym("quote")
    THEN v.items[2]
    ELSE v

\* The branch form sets the mark `name`.
IsMark(form, name) ==
    /\ form.tag = "list"
    /\ Len(form.items) = 3
    /\ form.items[2] = L3(Sym("set"), Sym(name), PyInt(1))

\* The value a branch form evaluates to.
BranchValue(form) ==
    IF form.tag = "list" /\ Len(form.items) = 3
    THEN LitValue(form.items[3])
    ELSE LitValue(form)

\* The number a global name is bound to.
G(fr, name) == fr[1][Sym(name)].n

\* C15: (if test then else) evaluates test once (the counter goes up by
\* one); when the test is truthy the result is the value of then, whatever
\* it is (0, the empty list, None), and else is not evaluated (its mark is
\* untouched); when it is falsy the result is the value of else, or None
\* when there is no else, and then is not evaluated.
C15_IfEvaluatesOneBranch ==
    [][ last'.kind = "if" =>
            LET f == last'.form
                v == LitValue(f.items[2].items[3])
                th == f.items[3]
                hasElse == Len(f.items) = 4
            IN  /\ last'.st = "ok"
                /\ G(frames', "c") = G(frames, "c") + 1
                /\ IF Truthy(v)
                   THEN /\ last'.val = BranchValue(th)
                        /\ G(frames', "t") =
                              IF IsMark(th, "t") THEN 1 ELSE G(frames, "t")
                        /\ G(frames', "e") = G(frames, "e")
                   ELSE /\ last'.val =
                              IF hasElse THEN BranchValue(f.items[4]) ELSE None
                        /\ G(frames', "t") = G(frames, "t")
                        /\ G(frames', "e") =
                              IF hasElse /\ IsMark(f.items[4], "e")
                              THEN 1 ELSE G(frames, "e")
      ]_vars

C15_Witness ==
    /\ last.kind = "if"
    /\ last.form = L4(Sym("if"), Tick(PyInt(1)), Mark("t", PyInt(0)),
                      Mark("e", PyInt(8)))
    /\ last.st = "ok"
    /\ last.val = PyInt(0)
    /\ G(frames, "c") = 1
    /\ G(frames, "t") = 1
    /\ G(frames, "e") = 0

(***************************************************************************)
(* SpecQuasi: quasiquote forms.  A quasiquoted list is made of up to       *)
(* MaxSlots slots: a plain element, or a marker ~ or ~@ with its operand.  *)
(* The global c counts evaluations, t is a mark and x is unbound, a        *)
(* number or a list.                                                       *)
(***************************************************************************)
MaxSlots == 2

\* (begin (set c (+ c 1)) c): an operand that counts and returns the count.
Inc == Tick(Sym("c"))

\* (+ 1 :k): raises TypeError.
BadSum == L3(Sym("+"), PyInt(1), Keyword("k"))

\* (cdr (quote (2 1 3))).
CdrCall == L2(Sym("cdr"), L2(Sym("quote"), L3(PyInt(2), PyInt(1), PyInt(3))))

\* (list 1 3).
ListCall == L3(Sym("list"), PyInt(1), PyInt(3))

PlainSlots == { <<PyInt(1)>>, <<Sym("x")>>, <<Mark("t", PyInt(0))>> }

UnquoteSlots ==
    { <<Sym("~"), op>> : op \in {Inc, Sym("x"), BadSum} }

SpliceSlots ==
    { <<Sym("~@"), op>> : op \in {ListCall, Sym("x"), CdrCall, BadSum} }

Slots == PlainSlots \cup UnquoteSlots \cup SpliceSlots

RECURSIVE Flatten(_)
Flatten(ss) == IF ss = <<>> THEN <<>> ELSE Head(ss) \o Flatten(Tail(ss))

QuasiLists ==
    { RList(Flatten(ss)) : ss \in UNION {[1..n -> Slots] : n \in 0..MaxSlots} }

Quasi(l) == L2(Sym("quasiquote"), l)

\* A quasiquote form, read right after a reset of the counter and the mark.
QuasiRead ==
    /\ CanTick
    /\ last.kind = "reset"
    /\ \E l \in QuasiLists : EvalAndPrint("quasi", Quasi(l))

\* x becomes a number or a list.
QuasiSetX ==
    \E v \in {PyInt(5), L2(Sym("quote"), L2(PyInt(8), PyInt(9)))} :
        EvalAndPrint("set", L3(Sym("set"), Sym("x"), v))

\* (defn q (x) (quasiquote (x ~ x ~@ (list x)))): the scope of a call.
QuasiDefn ==
    EvalAndPrint("defn",
                 Defn("q", L1(Sym("x")),
                      Quasi(RList(<<Sym("x"), Sym("~"), Sym("x"), Sym("~@"),
                                    L2(Sym("list"), Sym("x"))>>))))

QuasiCall ==
    /\ Sym("q") \in DOMAIN frames[1]
    /\ EvalAndPrint("callq", L2(Sym("q"), PyInt(7)))

\* Forms with a sub-expression that raises: an argument, a test, the value
\* of a define.
RaisingForms ==
    { L3(Sym("+"), PyInt(1), Sym("zz")),
      L3(Sym("+"), PyInt(1), BadSum),
      L4(Sym("if"), Sym("zz"), PyInt(1), PyInt(2)),
      L4(Sym("if"), BadSum, PyInt(1), PyInt(2)),
      Define("y", Sym("zz")),
      Define("y", BadSum) }

ReadRaising ==
    \E f \in RaisingForms : EvalAndPrint("raising", f)

NextQuasi ==
    \/ IfReset
    \/ QuasiRead
    \/ QuasiSetX
    \/ QuasiDefn
    \/ QuasiCall
    \/ ReadRaising

SpecQuasi == Init /\ [][NextQuasi]_vars

\* What an operand of ~ or ~@ is to evaluate to when the counter is c and x
\* is bound (xb) to xv: its status, its value and the counter after it.
OperandClaim(op, c, xb, xv) ==
    CASE op = Inc -> [st |-> "ok", val |-> PyInt(c + 1), c |-> c + 1]
      [] op = Sym("x") ->
            IF xb THEN [st |-> "ok", val |-> xv, c |-> c]
            ELSE [st |-> "NameError", val |-> None, c |-> c]
      [] op = ListCall ->
            [st |-> "ok", val |-> L2(PyInt(1), PyInt(3)), c |-> c]
      [] op = CdrCall ->
            [st |-> "ok", val |-> L2(PyInt(1), PyInt(3)), c |-> c]
      [] op = BadSum -> [st |-> "TypeError", val |-> None, c |-> c]
      [] OTHER -> [st |-> "ok", val |-> op, c |-> c]

RECURSIVE QuasiClaim(_, _, _, _)
\* What a quasiquoted list is to evaluate to, element by element from the
\* left: ~ x gives the value of x, ~@ x the items of the List x evaluates to
\* (SyntaxError when it is no List), any other element itself; the first
\* error ends it.
QuasiClaim(elems, c, xb, xv) ==
    IF elems = <<>> THEN [st |-> "ok", items |-> <<>>, c |-> c]
    ELSE IF Head(elems) \in {Sym("~"), Sym("~@")}
    THEN LET o == OperandClaim(elems[2], c, xb, xv) IN
         IF o.st # "ok" THEN [st |-> o.st, items |-> <<>>, c |-> o.c]
         ELSE IF Head(elems) = Sym("~@") /\ o.val.tag # "list"
         THEN [st |-> "SyntaxError", items |-> <<>>, c |-> o.c]
         ELSE LET rest == QuasiClaim(Tail(Tail(elems)), o.c, xb, xv) IN
              [rest EXCEPT !.items =
                  (IF Head(elems) = Sym("~") THEN <<o.val>> ELSE o.val.items)
                      \o @]
    ELSE LET rest == QuasiClaim(Tail(elems), c, xb, xv) IN
         [rest EXCEPT !.items = <<Head(elems)>> \o @]

\* The claim for the quasiquote form read in a state with heap fr.
ClaimFor(form, fr) ==
    QuasiClaim(form.items[2].items, G(fr, "c"), Sym("x") \in DOMAIN fr[1],
               IF Sym("x") \in DOMAIN fr[1] THEN fr[1][Sym("x")] ELSE None)

\* The list has a ~@ marker.
HasSplice(form) ==
    \E i \in 1..Len(form.items[2].items) : form.items[2].items[i] = Sym("~@")

\* An operand of the list raises when it is evaluated in heap fr.
HasRaising(form, fr) ==
    \E i \in 2..Len(form.items[2].items) :
        /\ form.items[2].items[i - 1] \in {Sym("~"), Sym("~@")}
        /\ \/ form.items[2].items[i] = BadSum
           \/ /\ form.items[2].items[i] = Sym("x")
              /\ Sym("x") \notin DOMAIN fr[1]

C17_SpliceEvaluatesAndSplices ==
    [][ /\ (/\ last'.kind = "quasi"
            /\ HasSplice(last'.form)
            /\ ~HasRaising(last'.form, frames)) =>
              /\ last'.st = ClaimFor(last'.form, frames).st
              /\ last'.st = "ok" =>
                    last'.val = RList(ClaimFor(last'.form, frames).items)
        /\ last'.kind = "callq" =>
              (last'.st = "ok" /\ last'.val = L3(Sym("x"), PyInt(7), PyInt(7)))
      ]_vars

\* What each form with a raising sub-expression is to raise.
RaisingClaim(form) ==
    IF \E i \in 1..Len(form.items) : form.items[i] = BadSum
    THEN "TypeError" ELSE "NameError"

\* C18: an error raised while evaluating a sub-expression (an argument, a
\* test, the value of a define, the operand of ~ or ~@) comes out of eval as
\* that error: eval does not catch it and go on to a normal result.
C18_SubexpressionErrorsPropagate ==
    [][ /\ (last'.kind = "quasi" /\ HasRaising(last'.form, frames)) =>
              last'.st = ClaimFor(last'.form, frames).st
        /\ last'.kind = "raising" => last'.st = RaisingClaim(last'.form)
      ]_vars

(***************************************************************************)
(* let.  The only let of the program is the macro _let of get_syntax(),    *)
(* called with the tokens after the word let, the evaluator and a scope.   *)
(* Evaluator.eval has no let branch and get_global_scope() binds no let:   *)
(* a (let ...) form read by the session takes the application branch.      *)
(***************************************************************************)
MaxBindings == 2

\* get_syntax()._let(tokens, evaluator, scope); tokens is a sequence whose
\* variable list holds lists.
_let(tokens, scope, fr, fuel) ==
    IF Len(tokens) \notin {2, 3}
    THEN Raise("ValueError", "unpack: expected 3", None, fr)
    ELSE
    LET bind_self == Len(tokens) = 3
        _name == IF bind_self THEN tokens[1] ELSE RString("anonymous lambda")
        _vars == IF bind_self THEN tokens[2] ELSE tokens[1]
        _body == IF bind_self THEN tokens[3] ELSE tokens[2]
    IN
    IF \E i \in 1..Len(_vars.items) : Len(_vars.items[i].items) < 2
    THEN Raise("IndexError", "list index out of range", None, fr)
    ELSE
    LET args == PyList([i \in 1..Len(_vars.items) |-> _vars.items[i].items[1]])
        vals == PyList([i \in 1..Len(_vars.items) |-> _vars.items[i].items[2]])
        c == IF bind_self THEN NewChild(scope, fr, EmptyFrame)
             ELSE Capture(scope, fr)
        let == Func(args, _name.name, _body, c.scope)
        fr1 == IF bind_self
               THEN [c.frames EXCEPT ![Len(c.frames)] = Put(@, _name, let)]
               ELSE c.frames
        \* let(vals): the whole list vals is the one argument of the call
        ns == nested_scope(let.scope, let.items[1], <<vals>>, fr1)
    IN  IF ns.st # "ok" THEN Raise(ns.st, ns.msg, None, ns.frames)
        ELSE Eval(let.items[2], ns.scope, ns.frames, NoLoc, fuel - 1)

LetPairs == { L2(v, e) : v \in {Sym("a"), Sym("b")},
                         e \in {PyInt(1), Sym("x"), Sym("a")} }

LetBindings == { RList(ps) : ps \in UNION {[1..n -> LetPairs] : n \in 0..MaxBindings} }

LetBodies == { Sym("a"), L3(Sym("+"), Sym("a"), Sym("a")),
               L3(Sym("+"), Sym("a"), Sym("b")),
               Define("y", Sym("a")) }

\* The tokens of (let ((v e) ...) body) and of (let f ((v e)) body).
LetTokens ==
    { <<vs, b>> : vs \in LetBindings, b \in LetBodies }
        \cup { <<Sym("f"), L1(p), b>> : p \in LetPairs, b \in LetBodies }

LetForm(tokens) == RList(<<Sym("let")>> \o tokens)

\* The macro called on the global scope, before or after x is set.
LetSyntax ==
    \E tokens \in LetTokens :
        LET r == _let(tokens, <<1>>, frames, MaxFuel)
            kept == Collect(r.frames)
        IN  /\ last.kind \in {"init", "set"}
            /\ Len(kept) <= MaxFrames
            /\ frames' = kept
            /\ last' = [kind |-> "let", form |-> LetForm(tokens), st |-> r.st,
                        val |-> r.val, msg |-> r.msg]

\* The form read by the session.
LetRead ==
    /\ last.kind \in {"init", "set"}
    /\ \E tokens \in LetTokens : EvalAndPrint("readlet", LetForm(tokens))

LetSetX == \E v \in {PyInt(5), PyInt(6)} :
              EvalAndPrint("set", L3(Sym("set"), Sym("x"), v))

NextLet == LetSyntax \/ LetRead \/ LetSetX

SpecLet == Init /\ [][NextLet]_vars

\* What (let ((v1 e1) ... (vn en)) body) is to do on heap fr: the outcome
\* of ((lambda (v1 ... vn) body) e1 ... en), whose operands are evaluated in
\* the enclosing scope and whose body runs in a new child scope.
LetClaim(form, fr) ==
    LET bs == form.items[2].items
    IN  Eval(RList(<<Lambda(RList([i \in 1..Len(bs) |-> bs[i].items[1]]),
                            form.items[3])>>
                   \o [i \in 1..Len(bs) |-> bs[i].items[2]]),
             <<1>>, fr, NoLoc, MaxFuel)

DefnForms ==
    { RList(<<Sym("defn"), Sym(n)>> \o doc \o sh) :
        n \in {"f", "+"}, doc \in {<<>>, <<RString("d")>>},
        sh \in {ShParamX, ShReadsY} }

\* (define name (lambda params body)) for (defn name <doc> params body).
ToDefine(form) ==
    LET n == Len(form.items)
    IN  L3(Sym("define"), form.items[2],
           Lambda(form.items[n - 1], form.items[n]))

DefnRead == \E d \in DefnForms : EvalAndPrint("defn", d)

DefnDefine == \E d \in DefnForms : EvalAndPrint("define", ToDefine(d))

DefnSet == \E v \in {PyInt(0), PyInt(1)} :
              EvalAndPrint("set", L3(Sym("set"), Sym("f"), v))

DefnCall ==
    /\ Sym("f") \in DOMAIN frames[1]
    /\ EvalAndPrint("call", L2(Sym("f"), PyInt(3)))

NextDefn == DefnRead \/ DefnDefine \/ DefnSet \/ DefnCall

SpecDefn == Init /\ [][NextDefn]_vars

\* The heap with the docstring of every bound closure blanked.
NoDoc(fr) ==
    [i \in DOMAIN fr |->
        [k \in DOMAIN fr[i] |->
            IF fr[i][k].tag = "func" THEN [fr[i][k] EXCEPT !.name = ""]
            ELSE fr[i][k]]]

\* C20: (defn name params body), with or without a docstring between name
\* and params, has the outcome of (define name (lambda params body)) read in
\* the same state: the same bindings (docstrings aside) and the same error
\* when name is already bound in the current frame.
C20_DefnIsDefineLambda ==
    [][ last'.kind = "defn" =>
            LET r == Eval(ToDefine(last'.form), <<1>>, frames, NoLoc, MaxFuel)
            IN  /\ last'.st = r.st
                /\ NoDoc(frames') = NoDoc(Collect(r.frames))
      ]_vars

(***************************************************************************)
(* The eval form.  The session binds x to a number, to a quoted call, to   *)
(* a quoted symbol or to a quoted quote form, binds y to a number, and     *)
(* reads (eval sym) and (eval (quote expr)).                               *)
(***************************************************************************)
EvalBind ==
    \E b \in {<<"x", PyInt(5)>>, <<"y", PyInt(7)>>, <<"y", PyInt(0)>>,
              <<"x", L2(Sym("quote"), L3(Sym("+"), PyInt(1), PyInt(2)))>>,
              <<"x", L2(Sym("quote"), Sym("y"))>>,
              <<"x", L2(Sym("quote"), L2(Sym("quote"), Sym("y")))>>} :
        EvalAndPrint("set", L3(Sym("set"), Sym(b[1]), b[2]))

\* (eval sym)
EvalSym ==
    \E s \in {"x", "y", "zz"} : EvalAndPrint("evalsym", L2(Sym("eval"), Sym(s)))

\* (eval (quote expr)), expr a list form
EvalQuoted ==
    \E e \in {L3(Sym("+"), PyInt(1), PyInt(2)), L3(Sym("+"), Sym("x"), PyInt(1)),
              L2(Sym("quote"), Sym("y")), L4(Sym("if"), Sym("y"), PyInt(2), PyInt(3)),
              L2(Sym("list"), Sym("y"))} :
        EvalAndPrint("evalquoted", L2(Sym("eval"), L2(Sym("quote"), e)))

NextEval == EvalBind \/ EvalSym \/ EvalQuoted

SpecEval == Init /\ [][NextEval]_vars

\* C21: (eval sym) with sym bound in no frame of the scope chain raises the
\* undefined-symbol NameError naming sym, and no KeyError, AttributeError
\* or other failure.
C21_EvalUnboundNameError ==
    [][ (/\ last'.kind = "evalsym"
         /\ last'.form.items[2] \notin DOMAIN frames[1]) =>
            (last'.st = "NameError" /\ last'.val = last'.form.items[2])
      ]_vars

\* C22: (eval (quote expr)) returns the value of expr evaluated in the
\* current scope, for every list form expr, and (eval sym) returns the
\* result of evaluating the value bound to sym.
C22_EvalEvaluatesQuotedAndBound ==
    [][ /\ last'.kind = "evalquoted" =>
            LET r == Eval(last'.form.items[2].items[2], <<1>>, frames, NoLoc,
                          MaxFuel)
            IN  last'.st = r.st /\ last'.val = r.val
        /\ (/\ last'.kind = "evalsym"
            /\ last'.form.items[2] \in DOMAIN frames[1]) =>
            LET r == Eval(frames[1][last'.form.items[2]], <<1>>, frames, NoLoc,
                          MaxFuel)
            IN  last'.st = r.st /\ last'.val = r.val
      ]_vars

(***************************************************************************)
(* The reader: Reader.lex and Reader.parse of backend.py.  A text is the   *)
(* sequence of its characters.  The model carries the characters           *)
(* ( ) [ ] { } ' , space, the digits and letters; comments, strings,       *)
(* floats, keywords, the backquote, ~ and newlines are left out.           *)
(***************************************************************************)
Token(tag, val) == [tag |-> tag, val |-> val]

DigitVal == ("0" :> 0) @@ ("1" :> 1) @@ ("2" :> 2) @@ ("3" :> 3) @@ ("4" :> 4)

\* The class [^()[\]{}\s\#,\.] of the SYMBOL tag.
SymbolChar(c) == c \notin {"(", ")", "[", "]", "{", "}", " ", ",", "#", "."}

\* The tag of a single delimiter character.
DelimTag ==
    ("(" :> "PAREN_OPEN") @@ (")" :> "PAREN_CLOSE") @@ ("[" :> "BRACKET_OPEN")
        @@ ("]" :> "BRACKET_CLOSE") @@ ("{" :> "BRACE_OPEN")
        @@ ("}" :> "BRACE_CLOSE")

\* string.strip()
Strip(text) ==
    IF \A i \in 1..Len(text) : text[i] = " " THEN <<>>
    ELSE LET a == CHOOSE i \in 1..Len(text) :
                    text[i] # " " /\ \A k \in 1..(i - 1) : text[k] = " "
             b == CHOOSE i \in 1..Len(text) :
                    text[i] # " " /\ \A k \in (i + 1)..Len(text) : text[k] = " "
         IN  SubSeq(text, a, b)

\* The end of the longest run from i of characters of a class (a greedy +).
RunEnd(text, i, InClass(_)) ==
    CHOOSE j \in i..Len(text) :
        /\ \A k \in i..j : InClass(text[k])
        /\ j = Len(text) \/ ~InClass(text[j + 1])

RECURSIVE Join(_)
Join(chars) == IF chars = <<>> THEN "" ELSE Head(chars) \o Join(Tail(chars))

RECURSIVE IntOf(_)
\* int(source_txt, 10)
IntOf(chars) ==
    IF chars = <<>> THEN 0
    ELSE 10 * IntOf(SubSeq(chars, 1, Len(chars) - 1)) + DigitVal[chars[Len(chars)]]

IsDigit(c) == c \in DOMAIN DigitVal

\* '(quote ' + source_txt[1:] + ')'
QuoteSub(source_txt) ==
    <<"(", "q", "u", "o", "t", "e", " ">> \o Tail(source_txt) \o <<")">>

RECURSIVE LexFrom(_, _)
\* The tokens re.finditer(self.tags, string) gives from position i on: at
\* each position the first tag of RIPL_TAGS that matches there.
LexFrom(text, i) ==
    IF i > Len(text) THEN <<>>
    ELSE
    LET c == text[i]
        n == Len(text)
    IN
    IF /\ c = "'" /\ i + 3 <= n /\ text[i + 1] = "("
       /\ \E j \in (i + 3)..n : text[j] = ")"
    THEN \* QUOTED_SEXP '\(.+\): up to the last ) of the text
         LET j == CHOOSE j \in (i + 3)..n :
                     text[j] = ")" /\ \A k \in (j + 1)..n : text[k] # ")"
         IN  LexFrom(QuoteSub(SubSeq(text, i, j)), 1) \o LexFrom(text, j + 1)
    ELSE IF c = "'" /\ i < n
    THEN \* QUOTED_ATOM '.+ : up to the end of the text
         LexFrom(QuoteSub(SubSeq(text, i, n)), 1)
    ELSE IF c = "(" /\ i < n /\ text[i + 1] = ")"
    THEN <<Token("NULL", EmptyList)>> \o LexFrom(text, i + 2)
    ELSE IF c \in DOMAIN DelimTag
    THEN <<Token(DelimTag[c], RString(c))>> \o LexFrom(text, i + 1)
    ELSE IF IsDigit(c)
    THEN LET j == RunEnd(text, i, IsDigit)
         IN  <<Token("INT", PyInt(IntOf(SubSeq(text, i, j))))>>
                 \o LexFrom(text, j + 1)
    ELSE IF c = ","
    THEN <<Token("COMMA", RString(","))>> \o LexFrom(text, i + 1)
    ELSE IF c = " "
    THEN LexFrom(text, i + 1)
    ELSE LET j == RunEnd(text, i, SymbolChar)
         IN  <<Token("SYMBOL", RString(Join(SubSeq(text, i, j))))>>
                 \o LexFrom(text, j + 1)

\* Reader.lex(string): the tokens, or the SyntaxError of the first lines.
lex(string) ==
    LET s == Strip(string) IN
    IF s # <<>> /\ s[1] = "(" /\ s[Len(s)] # ")"
    THEN [st |-> "SyntaxError", msg |-> "Unclosed s-expression in input",
          tokens |-> <<>>]
    ELSE [st |-> "ok", msg |-> "", tokens |-> LexFrom(s, 1)]

make_atom(token) ==
    IF token.tag = "SYMBOL" THEN Sym(token.val.name) ELSE token.val

POk(v, rest) == [st |-> "ok", val |-> v, msg |-> "", rest |-> rest]
PRaise(exc, msg) == [st |-> exc, val |-> None, msg |-> msg, rest |-> <<>>]

RECURSIVE ParseList(_, _)
\* [v for v in self.parse(tmp)] with tmp a Python list of tokens: next()
\* of a list is a TypeError, so any opening delimiter in it fails.
ParseList(tmp, acc) ==
    IF tmp = <<>> THEN POk(PyList(acc), <<>>)
    ELSE IF Head(tmp).tag \in {"PAREN_OPEN", "BRACKET_OPEN", "BRACE_OPEN"}
    THEN PRaise("TypeError", "'list' object is not an iterator")
    ELSE IF Head(tmp).tag \in {"PAREN_CLOSE", "BRACKET_CLOSE", "BRACE_CLOSE"}
    THEN PRaise("SyntaxError", "unexpected token in input")
    ELSE ParseList(Tail(tmp), Append(acc, make_atom(Head(tmp))))

\* The tokens before the first token of tag `close`, and those after it.
UpTo(tokens, close, skip) ==
    LET k == CHOOSE k \in 1..Len(tokens) :
                /\ tokens[k].tag = close
                /\ \A j \in 1..(k - 1) : tokens[j].tag # close
    IN  [tmp |-> SelectSeq(SubSeq(tokens, 1, k - 1), LAMBDA t : t.tag \notin skip),
         rest |-> SubSeq(tokens, k + 1, Len(tokens))]

\* Reader._parse_vector(tokens), called from the generator parse().
_parse_vector(tokens) ==
    IF tokens = <<>>
    THEN PRaise("RuntimeError", "generator raised StopIteration")
    ELSE IF \A k \in 1..Len(tokens) : tokens[k].tag # "BRACKET_CLOSE"
    THEN PRaise("SyntaxError", "missing closing ] in list literal.")
    ELSE LET u == UpTo(tokens, "BRACKET_CLOSE", {}) IN
         IF u.tmp = <<>>
         THEN PRaise("SyntaxError", "unexpected EOF while reading input")
         ELSE LET r == ParseList(u.tmp, <<>>) IN
              IF r.st # "ok" THEN r
              ELSE POk(RVector(r.val.items), u.rest)

\* Reader._parse_dict(tokens), called from the generator parse().
_parse_dict(tokens) ==
    IF tokens = <<>>
    THEN PRaise("RuntimeError", "generator raised StopIteration")
    ELSE IF \A k \in 1..Len(tokens) : tokens[k].tag # "BRACE_CLOSE"
    THEN PRaise("SyntaxError", "missing closing } in dict literal.")
    ELSE LET u == UpTo(tokens, "BRACE_CLOSE", {"COMMA"}) IN
         IF u.tmp = <<>>
         THEN PRaise("SyntaxError", "unexpected EOF while reading input")
         ELSE LET r == ParseList(u.tmp, <<>>) IN
              IF r.st # "ok" THEN r
              ELSE IF Len(r.val.items) % 2 # 0
              THEN PRaise("SyntaxError", "Invalid dict literal")
              ELSE IF \E i \in 1..(Len(r.val.items) \div 2) :
                         ~Hashable(r.val.items[2 * i - 1])
              THEN PRaise("TypeError", "unhashable type")
              ELSE POk(RDict(DictOfPairs(r.val.items, <<>>)), u.rest)

RECURSIVE ParseNext(_)
RECURSIVE ParseSexp(_, _)
\* The loop of an s-expression: tokens is chain([token], tokens) with a
\* token that is no PAREN_CLOSE, sexp the list read so far.  A next() that
\* finds the tokens exhausted raises StopIteration inside the generator,
\* which leaves it as RuntimeError.
ParseSexp(tokens, sexp) ==
    LET r == ParseNext(tokens) IN
    IF r.st = "StopIteration"
    THEN PRaise("RuntimeError", "generator raised StopIteration")
    ELSE IF r.st # "ok" THEN r
    ELSE IF r.rest = <<>>
    THEN PRaise("RuntimeError", "generator raised StopIteration")
    ELSE IF Head(r.rest).tag = "PAREN_CLOSE"
    THEN POk(RList(Append(sexp, r.val)), Tail(r.rest))
    ELSE ParseSexp(r.rest, Append(sexp, r.val))

\* next(self.parse(tokens)) on an iterator of tokens: the first value the
\* generator yields and the tokens left, or what it raises.
ParseNext(tokens) ==
    IF tokens = <<>> THEN PRaise("StopIteration", "")
    ELSE
    LET token == Head(tokens)
        rest == Tail(tokens)
    IN
    CASE token.tag = "PAREN_OPEN" ->
            IF rest = <<>>
            THEN PRaise("RuntimeError", "generator raised StopIteration")
            ELSE IF Head(rest).tag = "PAREN_CLOSE"
            THEN POk(PyList(<<>>), Tail(rest))
            ELSE ParseSexp(rest, <<>>)
      [] token.tag = "BRACKET_OPEN" -> _parse_vector(rest)
      [] token.tag = "BRACE_OPEN" -> _parse_dict(rest)
      [] token.tag \in {"PAREN_CLOSE", "BRACKET_CLOSE", "BRACE_CLOSE"} ->
            PRaise("SyntaxError", "unexpected token in input")
      [] OTHER -> POk(make_atom(token), rest)

\* next(reader.parse(reader.lex(exp))): how a text is read.
Read(exp) ==
    LET l == lex(exp) IN
    IF l.st # "ok" THEN PRaise(l.st, l.msg) ELSE ParseNext(l.tokens)

(***************************************************************************)
(* Reading texts.  A text is drawn from three families (strings of         *)
(* delimiters and the digit 1, dict literals, quoted forms in a context)   *)
(* and read once.                                                          *)
(***************************************************************************)
MaxText == 4
MaxEntries == 4

TextV(chars) == V("text", 0, "", chars, <<>>)

DelimTexts ==
    UNION { [1..n -> {"(", ")", "[", "]", "{", "}", "1"}] : n \in 1..MaxText }

RECURSIVE JoinWith(_, _)
\* The entries with the separator between them.
JoinWith(entries, sep) ==
    IF entries = <<>> THEN <<>>
    ELSE IF Len(entries) = 1 THEN entries[1]
    ELSE entries[1] \o sep \o JoinWith(Tail(entries), sep)

DictEntries == { <<"1">>, <<"2">>, <<"a">>, <<"(", "1", ")">> }

DictSeps == { <<" ">>, <<",">>, <<",", " ">> }

\* { e1 sep e2 sep ... }
DictText(entries, sep) == <<"{">> \o JoinWith(entries, sep) \o <<"}">>

DictTexts ==
    { DictText(es, sep) :
        es \in UNION { [1..n -> DictEntries] : n \in 0..MaxEntries },
        sep \in DictSeps }

QuotedForms ==
    { <<"a">>, <<"1">>, <<"(", "a", ")">>, <<"(", "a", " ", "1", ")">> }

\* What stands before and after the quoted form: nothing, or the rest of
\* an enclosing list.
QuoteContexts ==
    { << <<>>, <<>> >>, << <<"(", "f", " ">>, <<")">> >>,
      << <<"(", "f", " ">>, <<" ", "b", ")">> >>,
      << <<"(">>, <<" ", "1", ")">> >>,
      << <<"(", "f", " ">>, <<" ", "(", "b", ")", ")">> >> }

\* 'X and (quote X) in a context
ShortQuote(ctx, x) == ctx[1] \o <<"'">> \o x \o ctx[2]
LongQuote(ctx, x) ==
    ctx[1] \o <<"(", "q", "u", "o", "t", "e", " ">> \o x \o <<")">> \o ctx[2]

QuoteTexts == { ShortQuote(ctx, x) : ctx \in QuoteContexts, x \in QuotedForms }

InitRead ==
    /\ frames = <<GlobalFrame>>
    /\ \E f \in {<<"delims", DelimTexts>>, <<"dict", DictTexts>>,
                 <<"quote", QuoteTexts>>} :
         \E t \in f[2] :
            last = [kind |-> f[1], form |-> TextV(t), st |-> "pending",
                    val |-> None, msg |-> ""]

\* parsed_tokens = next(self.reader.parse(self.reader.lex(exp)))
ReadText ==
    /\ last.st = "pending"
    /\ LET r == Read(last.form.items)
       IN  last' = [last EXCEPT !.st = r.st, !.val = r.val, !.msg = r.msg]
    /\ UNCHANGED frames

SpecRead == InitRead /\ [][ReadText]_vars

\* C23: for every atom or list form X and every context (alone, or with
\* further forms inside an enclosing list), reading 'X gives exactly what
\* reading (quote X) gives in the same context.
C23_QuoteSugarReadsAsQuote ==
    \A ctx \in QuoteContexts, x \in QuotedForms :
        (/\ last.kind = "quote"
         /\ last.st # "pending"
         /\ last.form = TextV(ShortQuote(ctx, x))) =>
            /\ last.st = Read(LongQuote(ctx, x)).st
            /\ last.val = Read(LongQuote(ctx, x)).val

RECURSIVE Unbalanced(_, _)
\* The text closes a delimiter that is not the innermost open one, or ends
\* with a delimiter still open (stack: the open delimiters, innermost
\* first).
Unbalanced(chars, stack) ==
    IF chars = <<>> THEN stack # <<>>
    ELSE IF Head(chars) \in {"(", "[", "{"}
    THEN Unbalanced(Tail(chars), <<Head(chars)>> \o stack)
    ELSE IF Head(chars) \in {")", "]", "}"}
    THEN \/ stack = <<>>
         \/ <<Head(stack), Head(chars)>> \notin {<<"(", ")">>, <<"[", "]">>, <<"{", "}">>}
         \/ Unbalanced(Tail(chars), Tail(stack))
    ELSE Unbalanced(Tail(chars), stack)

\* C24: reading a text whose delimiters are unbalanced (the text ends with
\* a list, vector or dict literal still open at any depth, or has a closing
\* delimiter with no matching opener) raises SyntaxError: no other
\* exception and no parsed value.
C24_UnbalancedRaisesSyntaxError ==
    (/\ last.kind = "delims"
     /\ last.st # "pending"
     /\ Unbalanced(last.form.items, <<>>)) => last.st = "SyntaxError"

\* The value an entry of a dict literal stands for.
EntryValue(e) ==
    CASE e = <<"1">> -> PyInt(1)
      [] e = <<"2">> -> PyInt(2)
      [] e = <<"a">> -> Sym("a")
      [] e = <<"(", "1", ")">> -> L1(PyInt(1))

\* The mapping of a flat key/value sequence: each key to the value of its
\* last pair.
AsMap(flat) ==
    [k \in {flat[2 * i - 1] : i \in 1..(Len(flat) \div 2)} |->
        flat[2 * (CHOOSE i \in 1..(Len(flat) \div 2) :
                    /\ flat[2 * i - 1] = k
                    /\ \A j \in (i + 1)..(Len(flat) \div 2) : flat[2 * j - 1] # k)]]

\* C25: a dict literal with an even number of entries reads as the mapping
\* that pairs entry 1 with entry 2, entry 3 with entry 4 and so on, commas
\* being ignored; one with an odd number of entries raises SyntaxError.
C25_DictLiteralPairsEntries ==
    \A es \in UNION { [1..n -> DictEntries] : n \in 0..MaxEntries },
       sep \in DictSeps :
        (/\ last.kind = "dict"
         /\ last.st # "pending"
         /\ last.form = TextV(DictText(es, sep))) =>
            IF Len(es) % 2 = 0
            THEN /\ last.st = "ok"
                 /\ last.val.tag = "dict"
                 /\ AsMap(last.val.items)
                        = AsMap([i \in 1..Len(es) |-> EntryValue(es[i])])
            ELSE last.st = "SyntaxError"

(***************************************************************************)
(* The printer: Evaluator.py_to_lisp_str.  RList defines neither __str__   *)
(* nor __repr__, so str() of an RList is the repr of a deque subclass.     *)
(***************************************************************************)
MaxPrintLen == 2

RECURSIVE IntStr(_)
\* str(n) of an int
IntStr(n) ==
    IF n < 0 THEN "-" \o IntStr(0 - n)
    ELSE IF n < 10
    THEN <<"0", "1", "2", "3", "4", "5", "6", "7", "8", "9">>[n + 1]
    ELSE IntStr(n \div 10) \o IntStr(n % 10)

RECURSIVE JoinStr(_, _)
\* sep.join(strs)
JoinStr(strs, sep) ==
    IF strs = <<>> THEN ""
    ELSE IF Len(strs) = 1 THEN strs[1]
    ELSE strs[1] \o sep \o JoinStr(Tail(strs), sep)

RECURSIVE PyRepr(_)
\* repr(v); closures and host procedures (an address) are left out
PyRepr(v) ==
    LET reprs == [i \in 1..Len(v.items) |-> PyRepr(v.items[i])] IN
    CASE v.tag = "int" -> IntStr(v.n)
      [] v.tag = "bool" -> IF v.n = 1 THEN "True" ELSE "False"
      [] v.tag = "none" -> "None"
      [] v.tag = "sym" -> v.name
      [] v.tag = "str" -> "'" \o v.name \o "'"
      [] v.tag = "list" ->
            (IF IsEmptyList(v) THEN "EmptyList" ELSE "RList")
                \o "([" \o JoinStr(reprs, ", ") \o "])"
      [] v.tag \in {"vec", "pylist"} -> "[" \o JoinStr(reprs, ", ") \o "]"
      [] v.tag = "tuple" ->
            "(" \o JoinStr(reprs, ", ")
                \o (IF Len(reprs) = 1 THEN ",)" ELSE ")")
      [] v.tag = "dict" ->
            "{" \o JoinStr([i \in 1..(Len(reprs) \div 2) |->
                              reprs[2 * i - 1] \o ": " \o reprs[2 * i]], ", ")
                \o "}"
      [] OTHER -> "<object>"

\* str(v): an RString is its text, everything else has only a repr
PyStr(v) == IF v.tag = "str" THEN v.name ELSE PyRepr(v)

RECURSIVE py_to_lisp_str(_)
py_to_lisp_str(exp) ==
    LET strs == [i \in 1..Len(exp.items) |-> py_to_lisp_str(exp.items[i])] IN
    CASE exp.tag = "list" -> PyStr(exp)
      [] exp.tag \in {"vec", "pylist"} -> "[" \o JoinStr(strs, " ") \o "]"
      [] exp.tag = "dict" ->
            "{" \o JoinStr([i \in 1..(Len(exp.items) \div 2) |->
                              PyStr(exp.items[2 * i - 1]) \o " "
                                  \o PyStr(exp.items[2 * i])], ", ")
                \o "}"
      [] exp.tag = "tuple" -> "(," \o JoinStr(strs, " ") \o ")"
      [] OTHER -> PyStr(exp)

PrintElems ==
    { Sym("print"), PyInt(3), RString("s"), EmptyList, L1(PyInt(4)),
      L3(Sym("+"), PyInt(3), PyInt(4)), RVector(<<PyInt(1), L1(PyInt(2))>>) }

PrintValues ==
    PrintElems \cup { RList(xs) : xs \in UNION { [1..n -> PrintElems] : n \in 1..MaxPrintLen } }

InitPrint ==
    /\ frames = <<GlobalFrame>>
    /\ \E v \in PrintValues :
          last = [kind |-> "print", form |-> v, st |-> "pending",
                  val |-> None, msg |-> ""]

\* print('> ' + self.py_to_lisp_str(val)): msg holds the rendering
PrintVal ==
    /\ last.st = "pending"
    /\ last' = [last EXCEPT !.st = "ok", !.msg = py_to_lisp_str(last.form)]
    /\ UNCHANGED frames

SpecPrint == InitPrint /\ [][PrintVal]_vars

RECURSIVE Render(_)
\* ( e1 e2 ... ) with the elements rendered the same way
Render(v) ==
    IF v.tag = "list"
    THEN "(" \o JoinStr([i \in 1..Len(v.items) |-> Render(v.items[i])], " ")
             \o ")"
    ELSE py_to_lisp_str(v)

\* C26: a List prints as an opening parenthesis, the renderings of its
\* elements separated by single spaces and a closing parenthesis, nested
\* Lists the same way: the list (print (+ 3 4)) prints as (print (+ 3 4)).
C26_ListPrintsAsSexp ==
    (last.kind = "print" /\ last.st = "ok" /\ last.form.tag = "list") =>
        last.msg = Render(last.form)

(***************************************************************************)
(* SpecCons: cons onto Lists.  The session conses values onto quoted       *)
(* literals, onto Lists built by (list ...) and onto (); binds x to a      *)
(* quoted literal and conses onto x; defines f with a body that conses     *)
(* onto a quoted literal or onto its parameter, and calls it; and a caller *)
(* of Evaluator.eval evaluates one parsed tree, then the same tree again.  *)
(***************************************************************************)
MaxConsLen == 5

ObjIds == {"o1", "o2"}

RECURSIVE Named(_)
\* The named Lists held inside a value.
Named(v) ==
    (IF v.tag = "list" /\ v.name # "" THEN {v} ELSE {}) \cup
    UNION {Named(v.items[i]) : i \in 1..Len(v.items)}

\* The tree a caller of Evaluator.eval keeps, between two evaluations of it.
KeptTree == IF last.kind \in {"tree", "again"} THEN last.form ELSE None

\* The named Lists inside the closures of the heap.
InBodies ==
    UNION {UNION {Named(frames[i][k]) :
                     k \in {q \in DOMAIN frames[i] : frames[i][q].tag = "func"}}
              : i \in 1..Len(frames)}

\* The named Lists the session holds: in a binding, in a closure's body, in
\* the tree the caller keeps.
Held ==
    UNION {UNION {Named(frames[i][k]) : k \in DOMAIN frames[i]}
              : i \in 1..Len(frames)}
    \cup Named(KeptTree)

\* The reader makes a new object for every list it reads.
FreshIds == ObjIds \ {v.name : v \in Held}

\* No held List has grown to the bound.
Room == \A v \in Held : Len(v.items) < MaxConsLen

\* '(1 2 3) and '(), as read.
Lit123(id) == L2(Sym("quote"), QList(id, <<PyInt(1), PyInt(2), PyInt(3)>>))
LitNull(id) == L2(Sym("quote"), V("list", 1, id, <<>>, <<>>))

Cons(x, y) == L3(Sym("cons"), x, y)

\* The values consed: 0, "a", "", (list 5 6), () and :k.
ConsWhat ==
    {PyInt(0), RString("a"), RString(""), L3(Sym("list"), PyInt(5), PyInt(6)),
     EmptyList, Keyword("k")}

\* What they are consed onto: '(1 2 3), (list 3), () and '().
ConsOnto(id) == {Lit123(id), L2(Sym("list"), PyInt(3)), EmptyList, LitNull(id)}

ConsRead ==
    \E x \in ConsWhat, id \in FreshIds : \E y \in ConsOnto(id) :
        EvalAndPrint("cons", Cons(x, y))

\* (define x '(1 2 3))
ConsDefineX ==
    \E id \in FreshIds : EvalAndPrint("definex", Define("x", Lit123(id)))

\* (cons 0 x)
ConsOntoX == Room /\ EvalAndPrint("consx", Cons(PyInt(0), Sym("x")))

ConsReadX == EvalAndPrint("readx", Sym("x"))

\* (defn f () (cons 0 '(1 2 3))) or (defn f (l) (cons 0 l))
ConsDefn ==
    \E id \in FreshIds :
        \E sh \in {<<EmptyList, Cons(PyInt(0), Lit123(id))>>,
                   <<L1(Sym("l")), Cons(PyInt(0), Sym("l"))>>} :
            EvalAndPrint("defn", Defn("f", sh[1], sh[2]))

\* (f) or (f x)
ConsCall ==
    /\ Room
    /\ \E a \in {<<>>, <<Sym("x")>>} :
          EvalAndPrint("call", RList(<<Sym("f")>> \o a))

\* Evaluator.eval(exp, global_scope) on a tree the caller holds as exp: the
\* caller's reference is one more holder of the tree, kept in a frame of its
\* own for the time of the evaluation.  last.form is the tree as the
\* evaluation left it.
EvalKept(kind, exp) ==
    LET n == Len(frames)
        r == Eval(exp, <<1>>, Append(frames, [k \in {Sym("exp")} |-> exp]),
                  NoLoc, MaxFuel)
    IN  /\ last.st # "Diverge"
        /\ frames' = Collect(SubSeq(r.frames, 1, n))
        /\ last' = [kind |-> kind, form |-> r.frames[n + 1][Sym("exp")],
                    st |-> r.st, val |-> r.val, msg |-> r.msg]

\* exp = next(reader.parse(lex("(cons 0 '(1 2 3))"))); evaluator.eval(exp, ...)
EvalTree ==
    \E id \in FreshIds : EvalKept("tree", Cons(PyInt(0), Lit123(id)))

\* evaluator.eval(exp, ...) once more, on the same exp
EvalTreeAgain ==
    /\ last.kind \in {"tree", "again"}
    /\ Room
    /\ EvalKept("again", last.form)

NextCons ==
    \/ ConsRead
    \/ ConsDefineX
    \/ ConsOntoX
    \/ ConsReadX
    \/ ConsDefn
    \/ ConsCall
    \/ EvalTree
    \/ EvalTreeAgain

SpecCons == Init /\ [][NextCons]_vars

\* The value of an operand of a cons form, read off the form: 'l is l,
\* (list a b) is the List of a and b, anything else of the forms above is
\* itself.
OperandValue(e) ==
    IF e.tag = "list" /\ e.items # <<>> /\ e.items[1] = Sym("quote")
    THEN e.items[2]
    ELSE IF e.tag = "list" /\ e.items # <<>> /\ e.items[1] = Sym("list")
    THEN RList(Tail(e.items))
    ELSE e

\* C27: (cons x L) returns a List whose first element is x and whose
\* remaining elements are those of L, in order, whether x is a number, a
\* string or another List; consing onto an empty List does not return the
\* EmptyList sentinel.
C27_ConsPrependsOneElement ==
    last.kind = "cons" =>
        /\ last.st = "ok"
        /\ last.val.tag = "list"
        /\ ~IsEmptyList(last.val)
        /\ last.val.items =
              <<OperandValue(last.form.items[2])>> \o
              OperandValue(last.form.items[3]).items

\* A quoted literal as the reader made it.
AsRead(v) == IF v.n = 1 THEN <<>> ELSE <<PyInt(1), PyInt(2), PyInt(3)>>

\* C29: evaluation does not change the expression tree or a quoted literal in
\* it: (cons 0 '(1 2 3)) evaluated again from the same parsed tree, and a
\* closure whose body is that form called again, return (0 1 2 3) every time.
C29_EvaluationLeavesTreeUnchanged ==
    /\ \A v \in InBodies \cup Named(KeptTree) : v.items = AsRead(v)
    /\ (\/ last.kind \in {"tree", "again"}
        \/ /\ last.kind = "call"
           /\ last.form.items = <<Sym("f")>>
           /\ Sym("f") \in DOMAIN frames[1]
           /\ frames[1][Sym("f")].tag = "func"
           /\ frames[1][Sym("f")].items[1] = EmptyList)
       => /\ last.st = "ok"
          /\ last.val.items = <<PyInt(0), PyInt(1), PyInt(2), PyInt(3)>>

(***************************************************************************)
(* SpecTail: tail calls.  The session defines count, which calls itself as *)
(* the selected branch of an if; go, whose body is a call of count; and    *)
(* deep, which calls itself as an operand of +.  It sets x and calls the   *)
(* three on small numbers and on x.  last.depth is the depth of eval the   *)
(* call reached.                                                           *)
(***************************************************************************)
MaxIter == 4

TailFuel == 6 * (MaxIter + 2)

Less1(n) == L3(Sym("+"), n, PyInt(-1))
IsZero(n) == L3(Sym("=="), n, PyInt(0))

\* (defn count (n) (if (== n 0) 0 (count (+ n -1))))
DefnCount ==
    Defn("count", L1(Sym("n")),
         L4(Sym("if"), IsZero(Sym("n")), PyInt(0),
            L2(Sym("count"), Less1(Sym("n")))))

\* (defn go (n) (count n))
DefnGo == Defn("go", L1(Sym("n")), L2(Sym("count"), Sym("n")))

\* (defn deep (n) (if (== n 0) 0 (+ 1 (deep (+ n -1)))))
DefnDeep ==
    Defn("deep", L1(Sym("n")),
         L4(Sym("if"), IsZero(Sym("n")), PyInt(0),
            L3(Sym("+"), PyInt(1), L2(Sym("deep"), Less1(Sym("n"))))))

EvalMeasured(kind, form) ==
    LET r == Eval(form, <<1>>, frames, NoLoc, TailFuel)
        kept == Collect(r.frames)
    IN  /\ last.st # "Diverge"
        /\ Len(kept) <= MaxFrames
        /\ frames' = kept
        /\ last' = [kind |-> kind, form |-> form, st |-> r.st, val |-> r.val,
                    msg |-> r.msg,
                    depth |-> EvalDepth(form, <<1>>, frames, NoLoc, TailFuel)]

TailDefn ==
    \E d \in {DefnCount, DefnGo, DefnDeep} : EvalMeasured("defn", d)

TailSetX ==
    \E k \in {1, MaxIter} :
        EvalMeasured("set", L3(Sym("set"), Sym("x"), PyInt(k)))

TailCall ==
    \E f \in {"count", "go", "deep"} :
        \E a \in {PyInt(0), PyInt(MaxIter), Sym("x")} :
            EvalMeasured("call", L2(Sym(f), a))

NextTail ==
    \/ TailDefn
    \/ TailSetX
    \/ TailCall

SpecTail == Init /\ [][NextTail]_vars

\* C28: a call of a closure in tail position, as the body of a closure (go)
\* or as the selected branch of an if (count), runs in the eval invocation
\* that met it: however many times count calls itself, eval is never more
\* than three deep (the call, its test or operand, the operands of that).
C28_TailCallsKeepEvalDepthBounded ==
    (/\ last.kind = "call"
     /\ last.form.items[1] \in {Sym("count"), Sym("go")}
     /\ last.st = "ok")
    => last.depth <= 3

C28_Witness ==
    /\ last.kind = "call"
    /\ last.form = L2(Sym("count"), PyInt(MaxIter))
    /\ last.st = "ok"
    /\ last.val = PyInt(0)
    /\ last.depth = 3

(***************************************************************************)
(* SpecSet: set inside a closure.  The session defines and sets x at top   *)
(* level, defines f as a closure whose body sets x, calls it, keeps the    *)
(* closure one of them returns as g, and reads x.                          *)
(***************************************************************************)
SetX(e) == L3(Sym("set"), Sym("x"), e)

\* () -> (begin (set x 5) x): x is not a name of the call's frame.
ShSetsOuter == <<EmptyList, Begin2(SetX(PyInt(5)), Sym("x"))>>

\* (x) -> (begin (set x 5) x): x is the parameter.
ShSetsParam == <<L1(Sym("x")), Begin2(SetX(PyInt(5)), Sym("x"))>>

\* (a) -> (begin (set x a) (lambda () x)): returns a closure over the frame
\* of the call.
ShSetsKeeps ==
    <<L1(Sym("a")), Begin2(SetX(Sym("a")), Lambda(EmptyList, Sym("x")))>>

SetDefineX ==
    \E v \in {PyInt(0), PyInt(1)} : EvalAndPrint("define", Define("x", v))

SetTop ==
    \E v \in {PyInt(0), PyInt(1), PyInt(2)} : EvalAndPrint("set", SetX(v))

SetDefn ==
    \E sh \in {ShSetsOuter, ShSetsParam, ShSetsKeeps} :
        EvalAndPrint("defn", Defn("f", sh[1], sh[2]))

SetCall ==
    \E a \in {<<>>, <<PyInt(7)>>, <<PyInt(8)>>} :
        EvalAndPrint("call", RList(<<Sym("f")>> \o a))

SetDefineG ==
    \E v \in {PyInt(7), PyInt(8)} :
        EvalAndPrint("defineg", Define("g", L2(Sym("f"), v)))

SetCallG == EvalAndPrint("callg", L1(Sym("g")))

SetReadX == EvalAndPrint("symbol", Sym("x"))

NextSet ==
    \/ SetDefineX
    \/ SetTop
    \/ SetDefn
    \/ SetCall
    \/ SetDefineG
    \/ SetCallG
    \/ SetReadX

SpecSet == Init /\ [][NextSet]_vars

\* The global frame's binding of x: its value, or "unbound".
GlobalX(fr) ==
    IF Sym("x") \in DOMAIN fr[1] THEN fr[1][Sym("x")] ELSE RString("unbound")

\* C30: (set name expr) in the body of a closure writes the frame of the
\* call, whether or not that frame binds the name already: the body reads
\* back what it wrote, and the enclosing frame's binding of the name is after
\* the call what it was before.
C30_SetWritesInnermostFrame ==
    [][(/\ last'.kind \in {"call", "defineg", "callg"}
        /\ last'.st = "ok")
       => /\ GlobalX(frames') = GlobalX(frames)
          /\ (last'.kind = "call" /\ frames[1][Sym("f")] \in
                 {Func(sh[1], "", sh[2], <<1>>) :
                     sh \in {ShSetsOuter, ShSetsParam}}
              => last'.val = PyInt(5))
          /\ (last'.kind = "callg" => last'.val \in {PyInt(7), PyInt(8)})]_vars

C30_Witness ==
    /\ last.kind = "call"
    /\ last.st = "ok"
    /\ last.form = L1(Sym("f"))
    /\ last.val = PyInt(5)
    /\ GlobalX(frames) = PyInt(1)

====
